---- MODULE Spec2Model ----
(***************************************************************************)
(* Verification model of the quark runtime's typed vector engine           *)
(* (quark/types/vector.hpp) and of the operator dispatch in front of it    *)
(* (quark/ops/comparison.hpp, quark/ops/arithmetic.hpp).                   *)
(*                                                                         *)
(* A QVector is a record with the fields of struct QVector.  The heap is   *)
(* the sequence of live QVector objects; a vector QValue carries a handle  *)
(* (an index into the heap), so copies of a QValue share the object.       *)
(* A double is modelled as an exact rational n/d, or as +inf, -inf or NaN  *)
(* (the results of a division by zero); int64_t values are integers.       *)
(* A C string is the sequence of its characters.  Code indices are 0-based *)
(* and sequences here are 1-based: element i of the code is element i+1.   *)
(***************************************************************************)
EXTENDS Integers, Sequences, FiniteSets, TLC

VARIABLES heap, last

vars == <<heap, last>>

\* ------------------------------------------------------------------------
\* Bounds of the exploration
\* ------------------------------------------------------------------------
MaxLen == 2

MaxVecs == 2

\* ------------------------------------------------------------------------
\* double
\* ------------------------------------------------------------------------
Abs(x) == IF x < 0 THEN -x ELSE x

Sign(x) == IF x < 0 THEN -1 ELSE IF x > 0 THEN 1 ELSE 0

RECURSIVE Gcd(_, _)
Gcd(a, b) == IF b = 0 THEN a ELSE Gcd(b, a % b)

\* the finite double n/d (d > 0), in lowest terms
Fin(n, d) ==
    LET g == Gcd(Abs(n), d)
    IN  [c |-> "fin", n |-> n \div g, d |-> d \div g]

PInf == [c |-> "inf", n |-> 1, d |-> 1]

NInf == [c |-> "inf", n |-> -1, d |-> 1]

NaN == [c |-> "nan", n |-> 0, d |-> 1]

InfOf(s) == IF s < 0 THEN NInf ELSE PInf

\* static_cast<double>(int64_t)
IntToDouble(i) == Fin(i, 1)

\* truncation toward zero, as static_cast<int64_t>(double) does
TruncDiv(n, d) == IF n >= 0 THEN n \div d ELSE -((-n) \div d)

\* static_cast<int64_t>(double): undefined for a non-finite value, where the
\* result is whatever the build produces (ub)
DoubleToI64(x, ub) == IF x.c = "fin" THEN TruncDiv(x.n, x.d) ELSE ub

FNeg(x) == IF x.c = "nan" THEN NaN ELSE [x EXCEPT !.n = -x.n]

FAdd(x, y) ==
    IF x.c = "nan" \/ y.c = "nan" THEN NaN
    ELSE IF x.c = "inf" /\ y.c = "inf" THEN (IF x.n = y.n THEN x ELSE NaN)
    ELSE IF x.c = "inf" THEN x
    ELSE IF y.c = "inf" THEN y
    ELSE Fin(x.n * y.d + y.n * x.d, x.d * y.d)

FSub(x, y) == FAdd(x, FNeg(y))

FMul(x, y) ==
    IF x.c = "nan" \/ y.c = "nan" THEN NaN
    ELSE IF x.c = "inf" \/ y.c = "inf"
         THEN (IF x.n = 0 \/ y.n = 0 THEN NaN ELSE InfOf(Sign(x.n) * Sign(y.n)))
    ELSE Fin(x.n * y.n, x.d * y.d)

FDiv(x, y) ==
    IF x.c = "nan" \/ y.c = "nan" THEN NaN
    ELSE IF x.c = "inf" THEN (IF y.c = "inf" THEN NaN
                              ELSE InfOf(x.n * (IF y.n < 0 THEN -1 ELSE 1)))
    ELSE IF y.c = "inf" THEN Fin(0, 1)
    ELSE IF y.n = 0 THEN (IF x.n = 0 THEN NaN ELSE InfOf(x.n))
    ELSE Fin(x.n * y.d * Sign(y.n), x.d * Abs(y.n))

\* x < y on doubles: false whenever a NaN is involved
FLt(x, y) ==
    IF x.c = "nan" \/ y.c = "nan" THEN FALSE
    ELSE IF x.c = "inf" THEN x.n < 0 /\ ~(y.c = "inf" /\ y.n < 0)
    ELSE IF y.c = "inf" THEN y.n > 0
    ELSE x.n * y.d < y.n * x.d

FEq(x, y) == x.c # "nan" /\ y.c # "nan" /\ x = y

FLe(x, y) == FLt(x, y) \/ FEq(x, y)

FZero == Fin(0, 1)

\* ------------------------------------------------------------------------
\* QValue (core/value.hpp, core/constructors.hpp)
\* ------------------------------------------------------------------------
qv_int(v) == [type |-> "INT", i |-> v]

qv_float(v) == [type |-> "FLOAT", f |-> v]

qv_string(v) == [type |-> "STRING", s |-> v]

qv_bool(v) == [type |-> "BOOL", b |-> v]

qv_null == [type |-> "NULL"]

\* values of the kinds no vector operation looks inside
qv_dict == [type |-> "DICT"]

qv_func == [type |-> "FUNC"]

qv_ok(v) == [type |-> "RESULT", is_ok |-> TRUE, payload |-> v]

\* a list by value: the items of a QList
qv_list_init(items) == [type |-> "LIST", items |-> items]

\* a QValue of kind VAL_VECTOR holding the handle h
VecVal(h) == [type |-> "VECTOR", h |-> h]

\* ------------------------------------------------------------------------
\* QVector and its invariants
\* ------------------------------------------------------------------------
\* QVector::QVector()
QVector ==
    [type |-> "F64", count |-> 0, has_nulls |-> FALSE,
     storage |-> [kind |-> "f64", vals |-> <<>>], nulls |-> <<>>]

q_vec_has_valid_handle(hp, vec) == vec.type = "VECTOR" /\ vec.h \in DOMAIN hp

q_vec_storage_matches_type(vec) ==
    CASE vec.type = "F64" -> vec.storage.kind = "f64"
      [] vec.type = "I64" -> vec.storage.kind = "i64"
      [] vec.type = "BOOL" -> vec.storage.kind = "u8"
      [] vec.type = "STR" -> vec.storage.kind = "str"
      [] OTHER -> FALSE

q_vec_validate(vec) ==
    /\ q_vec_storage_matches_type(vec)
    /\ IF vec.type = "STR"
       THEN LET s == vec.storage
            IN  /\ Len(s.offsets) = vec.count + 1
                /\ s.offsets[1] = 0
                /\ s.offsets[Len(s.offsets)] = Len(s.bytes)
                /\ \A i \in 2..Len(s.offsets) : s.offsets[i] >= s.offsets[i - 1]
       ELSE Len(vec.storage.vals) = vec.count
    /\ IF ~vec.has_nulls THEN vec.nulls = <<>> ELSE Len(vec.nulls) = vec.count

q_vec_is_type(hp, vec, type) ==
    /\ q_vec_has_valid_handle(hp, vec)
    /\ hp[vec.h].type = type
    /\ q_vec_validate(hp[vec.h])

\* a mask allocated with every entry marked null instead of valid
EnsureMaskAllNull(vec) ==
    IF ~vec.has_nulls
    THEN [vec EXCEPT !.has_nulls = TRUE, !.nulls = [i \in 1..vec.count |-> 1]]
    ELSE vec

q_vec_ensure_null_mask(vec) ==
    IF ~vec.has_nulls
    THEN [vec EXCEPT !.has_nulls = TRUE, !.nulls = [i \in 1..vec.count |-> 0]]
    ELSE vec

\* index is the 0-based size_t index of the code
q_vec_is_null_at(vec, index) ==
    IF ~vec.has_nulls \/ index >= vec.count THEN FALSE
    ELSE vec.nulls[index + 1] # 0

q_is_numeric_scalar(v) == v.type \in {"INT", "FLOAT"}

q_is_integral_scalar(v) == v.type \in {"INT", "BOOL"}

q_is_boolish_scalar(v) == v.type \in {"BOOL", "INT"}

q_to_double_scalar(v) == IF v.type = "FLOAT" THEN v.f ELSE IntToDouble(v.i)

\* a conversion that takes every Bool for 0
ToI64BoolAsZero(v, ub) ==
    IF v.type = "BOOL" THEN 0
    ELSE IF v.type = "FLOAT" THEN DoubleToI64(v.f, ub)
    ELSE v.i

q_to_i64_scalar(v, ub) ==
    IF v.type = "BOOL" THEN (IF v.b THEN 1 ELSE 0)
    ELSE IF v.type = "FLOAT" THEN DoubleToI64(v.f, ub)
    ELSE v.i

\* the value a boolish scalar stands for
BoolOfScalar(v) == IF v.type = "BOOL" THEN v.b ELSE v.i # 0

U8(b) == IF b THEN 1 ELSE 0

\* ------------------------------------------------------------------------
\* Results of a call: the returned QValue and the heap after the call
\* ------------------------------------------------------------------------
Ret(hp, v) == [ret |-> v, heap |-> hp]

\* new QVector: the object gets the next free handle
Alloc(hp, vec) == [ret |-> VecVal(Len(hp) + 1), heap |-> Append(hp, vec)]

\* a C++ bool result (not a QValue)
CBool(b) == [type |-> "cbool", c |-> b]

\* The outcomes of a double -> int64 cast of a non-finite value (undefined
\* behaviour): any of these; a finite value leaves no choice.
UBOutcomes == {0, -1}

UBChoices(needed) == IF needed THEN UBOutcomes ELSE {0}

NonFinite(x) == x.c # "fin"

\* ------------------------------------------------------------------------
\* Constructors
\* ------------------------------------------------------------------------
qv_vector(hp) == Alloc(hp, QVector)

qv_vector_i64(hp) ==
    Alloc(hp, [QVector EXCEPT !.type = "I64",
                              !.storage = [kind |-> "i64", vals |-> <<>>]])

qv_vector_bool(hp) ==
    Alloc(hp, [QVector EXCEPT !.type = "BOOL",
                              !.storage = [kind |-> "u8", vals |-> <<>>]])

qv_vector_str(hp) ==
    Alloc(hp, [QVector EXCEPT !.type = "STR",
                              !.storage = [kind |-> "str", offsets |-> <<0>>,
                                           bytes |-> <<>>]])

\* ------------------------------------------------------------------------
\* Null mask and push
\* ------------------------------------------------------------------------
\* a q_vec_set_null_at that allocates the mask before it checks the index
SetNullAtMaskFirst(hp, vec, index, is_null) ==
    IF ~q_vec_has_valid_handle(hp, vec) THEN Ret(hp, CBool(FALSE))
    ELSE LET qvec == q_vec_ensure_null_mask(hp[vec.h])
         IN  IF index >= qvec.count
             THEN [ret |-> CBool(FALSE), heap |-> [hp EXCEPT ![vec.h] = qvec]]
             ELSE [ret |-> CBool(TRUE),
                   heap |-> [hp EXCEPT ![vec.h] =
                               [qvec EXCEPT !.nulls[index + 1] = U8(is_null)]]]

q_vec_set_null_at(hp, vec, index, is_null) ==
    IF ~q_vec_has_valid_handle(hp, vec) THEN Ret(hp, CBool(FALSE))
    ELSE IF index >= hp[vec.h].count THEN Ret(hp, CBool(FALSE))
    ELSE LET qvec == q_vec_ensure_null_mask(hp[vec.h])
         IN  [ret |-> CBool(TRUE),
              heap |-> [hp EXCEPT ![vec.h] =
                          [qvec EXCEPT !.nulls[index + 1] = U8(is_null)]]]

\* a push that leaves the null mask as it was (the variant the push law is
\* tested against)
PushBackNoMask(v, x) ==
    LET values == Append(v.storage.vals, x)
    IN  [v EXCEPT !.storage.vals = values, !.count = Len(values)]

\* the tail shared by the three push functions: append, recount, extend mask
PushBack(v, x) ==
    LET values == Append(v.storage.vals, x)
    IN  [v EXCEPT !.storage.vals = values,
                  !.count = Len(values),
                  !.nulls = IF v.has_nulls THEN Append(@, 0) ELSE @]

\* a push that builds a new vector and leaves the operand as it was
PushCopying(hp, vec, value) ==
    IF ~q_vec_has_valid_handle(hp, vec) THEN Ret(hp, qv_null)
    ELSE IF hp[vec.h].type # "F64" THEN Ret(hp, qv_null)
    ELSE IF ~q_is_numeric_scalar(value) THEN Ret(hp, qv_null)
    ELSE Alloc(hp, PushBack(hp[vec.h], q_to_double_scalar(value)))

q_vec_push(hp, vec, value) ==
    IF ~q_vec_has_valid_handle(hp, vec) THEN Ret(hp, qv_null)
    ELSE IF hp[vec.h].type # "F64" THEN Ret(hp, qv_null)
    ELSE IF ~q_is_numeric_scalar(value) THEN Ret(hp, qv_null)
    ELSE [ret |-> vec,
          heap |-> [hp EXCEPT ![vec.h] = PushBack(@, q_to_double_scalar(value))]]

q_vec_push_i64(hp, vec, value, ub) ==
    IF ~q_vec_has_valid_handle(hp, vec) \/ hp[vec.h].type # "I64"
    THEN Ret(hp, qv_null)
    ELSE IF ~(value.type \in {"INT", "FLOAT", "BOOL"}) THEN Ret(hp, qv_null)
    ELSE [ret |-> vec,
          heap |-> [hp EXCEPT ![vec.h] = PushBack(@, q_to_i64_scalar(value, ub))]]

q_vec_push_bool(hp, vec, value) ==
    IF ~q_vec_has_valid_handle(hp, vec) \/ hp[vec.h].type # "BOOL"
    THEN Ret(hp, qv_null)
    ELSE IF ~q_is_boolish_scalar(value) THEN Ret(hp, qv_null)
    ELSE [ret |-> vec,
          heap |-> [hp EXCEPT ![vec.h] = PushBack(@, U8(BoolOfScalar(value)))]]

\* ------------------------------------------------------------------------
\* String storage codec
\* ------------------------------------------------------------------------
RECURSIVE Concat(_)
Concat(strs) == IF strs = <<>> THEN <<>> ELSE Head(strs) \o Concat(Tail(strs))

\* offsets are the running byte totals, bytes the concatenation
q_vec_encode_strings(values) ==
    [kind |-> "str",
     offsets |-> [i \in 1..(Len(values) + 1) |-> Len(Concat(SubSeq(values, 1, i - 1)))],
     bytes |-> Concat(values)]

q_vec_decode_strings(storage, count) ==
    [i \in 1..count |-> SubSeq(storage.bytes, storage.offsets[i] + 1, storage.offsets[i + 1])]

\* a copy that hands back the operand's own handle
CloneSharing(hp, vec) ==
    IF ~q_vec_has_valid_handle(hp, vec) THEN Ret(hp, qv_null)
    ELSE IF ~q_vec_validate(hp[vec.h]) THEN Ret(hp, qv_null)
    ELSE Ret(hp, vec)

q_vec_clone(hp, vec) ==
    IF ~q_vec_has_valid_handle(hp, vec) THEN Ret(hp, qv_null)
    ELSE IF ~q_vec_validate(hp[vec.h]) THEN Ret(hp, qv_null)
    ELSE Alloc(hp, hp[vec.h])

\* ------------------------------------------------------------------------
\* Reductions
\* ------------------------------------------------------------------------
\* acc += vals[i] for i..n, left to right, in double precision
RECURSIVE FoldSum(_, _, _)
FoldSum(vals, i, acc) ==
    IF i > Len(vals) THEN acc ELSE FoldSum(vals, i + 1, FAdd(acc, vals[i]))

\* x < y on two int64 elements or on two doubles
ElemLess(x, y, f64) == IF f64 THEN FLt(x, y) ELSE x < y

\* cur = std::min(cur, vals[i]) for i..n: the element takes cur's place
\* when it is less than cur
RECURSIVE FoldMin(_, _, _, _)
FoldMin(vals, i, cur, f64) ==
    IF i > Len(vals) THEN cur
    ELSE FoldMin(vals, i + 1, IF ElemLess(vals[i], cur, f64) THEN vals[i] ELSE cur, f64)

\* cur = std::max(cur, vals[i]) for i..n: the element takes cur's place
\* when cur is less than it
RECURSIVE FoldMax(_, _, _, _)
FoldMax(vals, i, cur, f64) ==
    IF i > Len(vals) THEN cur
    ELSE FoldMax(vals, i + 1, IF ElemLess(cur, vals[i], f64) THEN vals[i] ELSE cur, f64)

\* a sum that leaves out the elements the mask marks null
SumSkippingNulls(hp, vec) ==
    IF ~q_vec_has_valid_handle(hp, vec) THEN qv_null
    ELSE LET v == hp[vec.h]
             Kept(x, i) == IF q_vec_is_null_at(v, i - 1) THEN Fin(0, 1) ELSE x
         IN  IF q_vec_is_type(hp, vec, "I64")
             THEN qv_float(FoldSum([i \in 1..Len(v.storage.vals) |->
                                      Kept(IntToDouble(v.storage.vals[i]), i)], 1, Fin(0, 1)))
             ELSE IF q_vec_is_type(hp, vec, "BOOL")
             THEN qv_float(FoldSum([i \in 1..Len(v.storage.vals) |->
                                      Kept(IF v.storage.vals[i] # 0 THEN Fin(1, 1) ELSE Fin(0, 1), i)],
                                   1, Fin(0, 1)))
             ELSE IF ~q_vec_is_type(hp, vec, "F64") THEN qv_null
             ELSE qv_float(FoldSum([i \in 1..Len(v.storage.vals) |-> Kept(v.storage.vals[i], i)],
                                   1, Fin(0, 1)))

\* the stored elements of every slot are read, whatever the null mask says
q_vec_sum(hp, vec) ==
    IF q_vec_is_type(hp, vec, "I64")
    THEN LET vi == hp[vec.h].storage.vals
         IN  qv_float(FoldSum([i \in 1..Len(vi) |-> IntToDouble(vi[i])], 1, Fin(0, 1)))
    ELSE IF q_vec_is_type(hp, vec, "BOOL")
    THEN LET vb == hp[vec.h].storage.vals
         IN  qv_float(FoldSum([i \in 1..Len(vb) |->
                                  IF vb[i] # 0 THEN Fin(1, 1) ELSE Fin(0, 1)], 1, Fin(0, 1)))
    ELSE IF ~q_vec_is_type(hp, vec, "F64") THEN qv_null
    ELSE qv_float(FoldSum(hp[vec.h].storage.vals, 1, Fin(0, 1)))

q_vec_min(hp, vec) ==
    IF q_vec_is_type(hp, vec, "I64") /\ hp[vec.h].storage.vals # <<>>
    THEN LET vi == hp[vec.h].storage.vals
         IN  qv_float(IntToDouble(FoldMin(vi, 2, vi[1], FALSE)))
    ELSE IF ~q_vec_is_type(hp, vec, "F64") THEN qv_null
    ELSE IF hp[vec.h].storage.vals = <<>> THEN qv_null
    ELSE LET v == hp[vec.h].storage.vals
         IN  qv_float(FoldMin(v, 2, v[1], TRUE))

q_vec_max(hp, vec) ==
    IF q_vec_is_type(hp, vec, "I64") /\ hp[vec.h].storage.vals # <<>>
    THEN LET vi == hp[vec.h].storage.vals
         IN  qv_float(IntToDouble(FoldMax(vi, 2, vi[1], FALSE)))
    ELSE IF ~q_vec_is_type(hp, vec, "F64") THEN qv_null
    ELSE IF hp[vec.h].storage.vals = <<>> THEN qv_null
    ELSE LET v == hp[vec.h].storage.vals
         IN  qv_float(FoldMax(v, 2, v[1], TRUE))

\* ------------------------------------------------------------------------
\* fillna and astype
\* ------------------------------------------------------------------------
\* values[i] = fill wherever the mask marks a null; then drop the mask
FillNulls(out, values, fill) ==
    [i \in 1..Len(values) |-> IF i <= out.count /\ out.nulls[i] # 0 THEN fill ELSE values[i]]

\* a fill that clears the mask buffer but leaves has_nulls set
DropMaskKeepFlag(out) == [out EXCEPT !.nulls = <<>>]

DropMask(out) == [out EXCEPT !.has_nulls = FALSE, !.nulls = <<>>]

\* a q_fillna that clears the mask before it looks at the fill value
FillnaClearingFirst(hp, vec, value, ub) ==
    IF ~q_vec_has_valid_handle(hp, vec) THEN Ret(hp, qv_null)
    ELSE IF ~q_vec_validate(hp[vec.h]) THEN Ret(hp, qv_null)
    ELSE LET out == hp[vec.h]
             cleared == [hp EXCEPT ![vec.h] = DropMask(out)]
             Store(v) == [ret |-> vec, heap |-> [hp EXCEPT ![vec.h] = DropMask(v)]]
         IN  IF ~out.has_nulls \/ out.nulls = <<>> THEN Ret(hp, vec)
             ELSE CASE out.type = "F64" ->
                         IF ~q_is_numeric_scalar(value) THEN Ret(cleared, qv_null)
                         ELSE Store([out EXCEPT !.storage.vals =
                                        FillNulls(out, @, q_to_double_scalar(value))])
                    [] out.type = "I64" ->
                         IF ~(value.type \in {"INT", "FLOAT", "BOOL"}) THEN Ret(cleared, qv_null)
                         ELSE Store([out EXCEPT !.storage.vals =
                                        FillNulls(out, @, q_to_i64_scalar(value, ub))])
                    [] out.type = "BOOL" ->
                         IF ~q_is_boolish_scalar(value) THEN Ret(cleared, qv_null)
                         ELSE Store([out EXCEPT !.storage.vals =
                                        FillNulls(out, @, U8(BoolOfScalar(value)))])
                    [] out.type = "STR" ->
                         IF value.type # "STRING" THEN Ret(cleared, qv_null)
                         ELSE LET values == q_vec_decode_strings(out.storage, out.count)
                              IN  Store([out EXCEPT !.storage =
                                            q_vec_encode_strings(FillNulls(out, values, value.s))])
                    [] OTHER -> Ret(hp, qv_null)

q_fillna(hp, vec, value, ub) ==
    IF ~q_vec_has_valid_handle(hp, vec) THEN Ret(hp, qv_null)
    ELSE IF ~q_vec_validate(hp[vec.h]) THEN Ret(hp, qv_null)
    ELSE LET out == hp[vec.h]
             Store(v) == [ret |-> vec, heap |-> [hp EXCEPT ![vec.h] = DropMask(v)]]
         IN  IF ~out.has_nulls \/ out.nulls = <<>> THEN Ret(hp, vec)
             ELSE CASE out.type = "F64" ->
                         IF ~q_is_numeric_scalar(value) THEN Ret(hp, qv_null)
                         ELSE Store([out EXCEPT !.storage.vals =
                                        FillNulls(out, @, q_to_double_scalar(value))])
                    [] out.type = "I64" ->
                         IF ~(value.type \in {"INT", "FLOAT", "BOOL"}) THEN Ret(hp, qv_null)
                         ELSE Store([out EXCEPT !.storage.vals =
                                        FillNulls(out, @, q_to_i64_scalar(value, ub))])
                    [] out.type = "BOOL" ->
                         IF ~q_is_boolish_scalar(value) THEN Ret(hp, qv_null)
                         ELSE Store([out EXCEPT !.storage.vals =
                                        FillNulls(out, @, U8(BoolOfScalar(value)))])
                    [] out.type = "STR" ->
                         IF value.type # "STRING" THEN Ret(hp, qv_null)
                         ELSE LET values == q_vec_decode_strings(out.storage, out.count)
                              IN  Store([out EXCEPT !.storage =
                                            q_vec_encode_strings(FillNulls(out, values, value.s))])
                    [] OTHER -> Ret(hp, qv_null)

\* a cast that resolves the nulls: the result carries no mask
CastOutNoMask(src, type, kind, vals) ==
    [type |-> type, count |-> src.count, has_nulls |-> FALSE,
     storage |-> [kind |-> kind, vals |-> vals], nulls |-> <<>>]

\* the freshly allocated result of a cast: src's count, has_nulls and mask
CastOut(src, type, kind, vals) ==
    [type |-> type, count |-> src.count, has_nulls |-> src.has_nulls,
     storage |-> [kind |-> kind, vals |-> vals], nulls |-> src.nulls]

q_astype(hp, vec, dtype, ub) ==
    IF ~q_vec_has_valid_handle(hp, vec) THEN Ret(hp, qv_null)
    ELSE IF ~q_vec_validate(hp[vec.h]) THEN Ret(hp, qv_null)
    ELSE IF dtype.type # "STRING" THEN Ret(hp, qv_null)
    ELSE LET src == hp[vec.h]
             target == dtype.s
             in == src.storage.vals
             n == src.count
         IN  IF target = <<"f", "6", "4">>
             THEN IF src.type = "F64" THEN q_vec_clone(hp, vec)
                  ELSE IF src.type = "I64"
                  THEN Alloc(hp, CastOut(src, "F64", "f64",
                                         [i \in 1..n |-> IntToDouble(in[i])]))
                  ELSE IF src.type = "BOOL"
                  THEN Alloc(hp, CastOut(src, "F64", "f64",
                                         [i \in 1..n |-> IF in[i] # 0 THEN Fin(1, 1) ELSE FZero]))
                  ELSE Ret(hp, qv_null)
             ELSE IF target = <<"i", "6", "4">>
             THEN IF src.type = "I64" THEN q_vec_clone(hp, vec)
                  ELSE IF src.type = "F64"
                  THEN Alloc(hp, CastOut(src, "I64", "i64",
                                         [i \in 1..n |-> DoubleToI64(in[i], ub)]))
                  ELSE IF src.type = "BOOL"
                  THEN Alloc(hp, CastOut(src, "I64", "i64",
                                         [i \in 1..n |-> IF in[i] # 0 THEN 1 ELSE 0]))
                  ELSE Ret(hp, qv_null)
             ELSE IF target = <<"b", "o", "o", "l">>
             THEN IF src.type = "BOOL" THEN q_vec_clone(hp, vec)
                  ELSE IF src.type = "F64"
                  THEN Alloc(hp, CastOut(src, "BOOL", "u8",
                                         [i \in 1..n |-> U8(~FEq(in[i], FZero))]))
                  ELSE IF src.type = "I64"
                  THEN Alloc(hp, CastOut(src, "BOOL", "u8",
                                         [i \in 1..n |-> U8(in[i] # 0)]))
                  ELSE Ret(hp, qv_null)
             ELSE Ret(hp, qv_null)

\* ------------------------------------------------------------------------
\* List / vector bridging
\* ------------------------------------------------------------------------
\* a dtype scan that rejects a list in which no element fixes the dtype
RECURSIVE ScanModeNeedsElement(_, _, _)
ScanModeNeedsElement(items, i, mode) ==
    IF i > Len(items) THEN (IF mode = "UNKNOWN" THEN "INVALID" ELSE mode)
    ELSE LET t == items[i].type
             want == CASE t = "INT" -> "I64"
                       [] t = "FLOAT" -> "F64"
                       [] t = "STRING" -> "STR"
                       [] OTHER -> "INVALID"
         IN  IF t = "NULL" THEN ScanModeNeedsElement(items, i + 1, mode)
             ELSE IF want = "INVALID" THEN "INVALID"
             ELSE IF mode = "UNKNOWN" THEN ScanModeNeedsElement(items, i + 1, want)
             ELSE IF mode # want THEN "INVALID"
             ELSE ScanModeNeedsElement(items, i + 1, mode)

\* the dtype scan of q_to_vector: the mode after items i..n, starting in mode
RECURSIVE ScanMode(_, _, _)
ScanMode(items, i, mode) ==
    IF i > Len(items) THEN mode
    ELSE LET t == items[i].type
             want == CASE t = "INT" -> "I64"
                       [] t = "FLOAT" -> "F64"
                       [] t = "STRING" -> "STR"
                       [] OTHER -> "INVALID"
         IN  IF t = "NULL" THEN ScanMode(items, i + 1, mode)
             ELSE IF want = "INVALID" THEN "INVALID"
             ELSE IF mode = "UNKNOWN" THEN ScanMode(items, i + 1, want)
             ELSE IF mode # want THEN "INVALID"
             ELSE ScanMode(items, i + 1, mode)

\* a mask that is allocated but in which no Null item is marked
ListNullsUnmarked(items) ==
    IF \E i \in 1..Len(items) : items[i].type = "NULL"
    THEN [i \in 1..Len(items) |-> 0]
    ELSE <<>>

\* the null mask q_to_vector builds: present only when some item is Null
ListNulls(items) ==
    IF \E i \in 1..Len(items) : items[i].type = "NULL"
    THEN [i \in 1..Len(items) |-> IF items[i].type = "NULL" THEN 1 ELSE 0]
    ELSE <<>>

q_to_vector(hp, input) ==
    IF q_vec_has_valid_handle(hp, input) /\ q_vec_validate(hp[input.h])
    THEN q_vec_clone(hp, input)
    ELSE IF input.type # "LIST" THEN Ret(hp, qv_null)
    ELSE LET items == input.items
             n == Len(items)
             scanned == ScanMode(items, 1, "UNKNOWN")
             mode == IF scanned = "UNKNOWN" THEN "I64" ELSE scanned
             hasNulls == \E i \in 1..n : items[i].type = "NULL"
             Out(type, storage) ==
                 [type |-> type, count |-> n, has_nulls |-> hasNulls,
                  storage |-> storage, nulls |-> ListNulls(items)]
         IN  CASE mode = "INVALID" -> Ret(hp, qv_null)
               [] mode = "F64" ->
                    Alloc(hp, Out("F64", [kind |-> "f64", vals |->
                        [i \in 1..n |-> IF items[i].type = "NULL" THEN FZero ELSE items[i].f]]))
               [] mode = "I64" ->
                    Alloc(hp, Out("I64", [kind |-> "i64", vals |->
                        [i \in 1..n |-> IF items[i].type = "NULL" THEN 0 ELSE items[i].i]]))
               [] mode = "STR" ->
                    Alloc(hp, Out("STR", q_vec_encode_strings(
                        [i \in 1..n |-> IF items[i].type = "NULL" THEN <<>> ELSE items[i].s])))
               [] OTHER -> Ret(hp, qv_null)

q_to_list(hp, input) ==
    IF input.type = "LIST" THEN Ret(hp, input)
    ELSE IF ~q_vec_has_valid_handle(hp, input) THEN Ret(hp, qv_null)
    ELSE LET v == hp[input.h]
             n == v.count
             IsNull(i) == v.has_nulls /\ i <= Len(v.nulls) /\ v.nulls[i] # 0
             strs == q_vec_decode_strings(v.storage, n)
             Item(i) ==
                 IF IsNull(i) THEN qv_null
                 ELSE CASE v.type = "I64" -> qv_int(v.storage.vals[i])
                        [] v.type = "F64" -> qv_float(v.storage.vals[i])
                        [] v.type = "BOOL" -> qv_bool(v.storage.vals[i] # 0)
                        [] v.type = "STR" -> qv_string(strs[i])
         IN  Ret(hp, qv_list_init([i \in 1..n |-> Item(i)]))

\* ------------------------------------------------------------------------
\* Elementwise arithmetic kernels
\* ------------------------------------------------------------------------
\* a kernel result whose count is not set after the buffer is filled
KernelOutNoCount(type, kind, vals) ==
    [type |-> type, count |-> 0, has_nulls |-> FALSE,
     storage |-> [kind |-> kind, vals |-> vals], nulls |-> <<>>]

\* a result vector as the kernels build it: resized buffer, count, no mask
KernelOut(type, kind, vals) ==
    [type |-> type, count |-> Len(vals), has_nulls |-> FALSE,
     storage |-> [kind |-> kind, vals |-> vals], nulls |-> <<>>]

Vals(hp, v) == hp[v.h].storage.vals

q_vec_binary_impl(hp, a, b, op(_, _)) ==
    LET aVec == q_vec_has_valid_handle(hp, a)
        bVec == q_vec_has_valid_handle(hp, b)
    IN  IF ~aVec /\ ~bVec THEN Ret(hp, qv_null)
        ELSE IF aVec /\ bVec
        THEN IF ~q_vec_is_type(hp, a, "F64") \/ ~q_vec_is_type(hp, b, "F64")
             THEN Ret(hp, qv_null)
             ELSE IF Len(Vals(hp, a)) # Len(Vals(hp, b)) THEN Ret(hp, qv_null)
             ELSE Alloc(hp, KernelOut("F64", "f64",
                      [i \in 1..Len(Vals(hp, a)) |-> op(Vals(hp, a)[i], Vals(hp, b)[i])]))
        ELSE IF aVec /\ q_is_numeric_scalar(b)
        THEN IF ~q_vec_is_type(hp, a, "F64") THEN Ret(hp, qv_null)
             ELSE Alloc(hp, KernelOut("F64", "f64",
                      [i \in 1..Len(Vals(hp, a)) |-> op(Vals(hp, a)[i], q_to_double_scalar(b))]))
        ELSE IF bVec /\ q_is_numeric_scalar(a)
        THEN IF ~q_vec_is_type(hp, b, "F64") THEN Ret(hp, qv_null)
             ELSE Alloc(hp, KernelOut("F64", "f64",
                      [i \in 1..Len(Vals(hp, b)) |-> op(q_to_double_scalar(a), Vals(hp, b)[i])]))
        ELSE Ret(hp, qv_null)

\* The shape shared by q_vec_binary_i64_impl and q_vec_div_i64: both operands
\* I64 vectors of one length, or one I64 vector and an integral scalar.
I64Kernel(hp, a, b, type, kind, op(_, _)) ==
    LET aVec == q_vec_has_valid_handle(hp, a)
        bVec == q_vec_has_valid_handle(hp, b)
    IN  IF aVec /\ bVec
        THEN IF ~q_vec_is_type(hp, a, "I64") \/ ~q_vec_is_type(hp, b, "I64")
             THEN Ret(hp, qv_null)
             ELSE IF Len(Vals(hp, a)) # Len(Vals(hp, b)) THEN Ret(hp, qv_null)
             ELSE Alloc(hp, KernelOut(type, kind,
                      [i \in 1..Len(Vals(hp, a)) |-> op(Vals(hp, a)[i], Vals(hp, b)[i])]))
        ELSE IF aVec /\ q_is_integral_scalar(b)
        THEN IF ~q_vec_is_type(hp, a, "I64") THEN Ret(hp, qv_null)
             ELSE Alloc(hp, KernelOut(type, kind,
                      [i \in 1..Len(Vals(hp, a)) |-> op(Vals(hp, a)[i], q_to_i64_scalar(b, 0))]))
        ELSE IF bVec /\ q_is_integral_scalar(a)
        THEN IF ~q_vec_is_type(hp, b, "I64") THEN Ret(hp, qv_null)
             ELSE Alloc(hp, KernelOut(type, kind,
                      [i \in 1..Len(Vals(hp, b)) |-> op(q_to_i64_scalar(a, 0), Vals(hp, b)[i])]))
        ELSE Ret(hp, qv_null)

q_vec_binary_i64_impl(hp, a, b, op(_, _)) == I64Kernel(hp, a, b, "I64", "i64", op)

IDivAsDouble(x, y) == FDiv(IntToDouble(x), IntToDouble(y))

q_vec_div_i64(hp, a, b) == I64Kernel(hp, a, b, "F64", "f64", IDivAsDouble)

IAdd(x, y) == x + y

ISub(x, y) == x - y

IMul(x, y) == x * y

\* the dispatch shared by q_vec_add/sub/mul/div: the integer path when either
\* operand is an I64 vector, then the float64 path
ArithDispatch(hp, a, b, intPath, fop(_, _)) ==
    IF (q_vec_is_type(hp, a, "I64") \/ q_vec_is_type(hp, b, "I64"))
       /\ intPath.ret.type # "NULL"
    THEN intPath
    ELSE q_vec_binary_impl(hp, a, b, fop)

q_vec_add(hp, a, b) == ArithDispatch(hp, a, b, q_vec_binary_i64_impl(hp, a, b, IAdd), FAdd)

q_vec_sub(hp, a, b) == ArithDispatch(hp, a, b, q_vec_binary_i64_impl(hp, a, b, ISub), FSub)

q_vec_mul(hp, a, b) == ArithDispatch(hp, a, b, q_vec_binary_i64_impl(hp, a, b, IMul), FMul)

q_vec_div(hp, a, b) == ArithDispatch(hp, a, b, q_vec_div_i64(hp, a, b), FDiv)

\* ------------------------------------------------------------------------
\* Comparison kernels (BOOL vector results)
\* ------------------------------------------------------------------------
\* q_vec_cmp_alloc_bool followed by the fill loop every comparison kernel
\* runs: without nulls every element is the comparison; with nulls the mask
\* is allocated, a null element gets mask 1 and keeps payload 0
CmpOut(n, hasNulls, IsNullAt(_), Res(_)) ==
    [type |-> "BOOL", count |-> n, has_nulls |-> hasNulls,
     storage |-> [kind |-> "u8", vals |->
        [i \in 1..n |-> IF hasNulls /\ IsNullAt(i) THEN 0 ELSE U8(Res(i))]],
     nulls |-> IF hasNulls THEN [i \in 1..n |-> U8(IsNullAt(i))] ELSE <<>>]

\* a mask read one element too far along
NullAtShifted(hp, v, i) == q_vec_is_null_at(hp[v.h], i)

NullAt(hp, v, i) == q_vec_is_null_at(hp[v.h], i - 1)

\* the three operand shapes of the F64 and I64 comparison templates
NumCmp(hp, a, b, type, ScalarOk(_), Conv(_), op(_, _)) ==
    LET aVec == q_vec_has_valid_handle(hp, a)
        bVec == q_vec_has_valid_handle(hp, b)
    IN  IF ~aVec /\ ~bVec THEN Ret(hp, qv_null)
        ELSE IF aVec /\ bVec
        THEN IF ~q_vec_is_type(hp, a, type) \/ ~q_vec_is_type(hp, b, type)
             THEN Ret(hp, qv_null)
             ELSE IF Len(Vals(hp, a)) # Len(Vals(hp, b)) THEN Ret(hp, qv_null)
             ELSE LET IsNull(i) == NullAt(hp, a, i) \/ NullAt(hp, b, i)
                      Res(i) == op(Vals(hp, a)[i], Vals(hp, b)[i])
                  IN  Alloc(hp, CmpOut(Len(Vals(hp, a)),
                                       hp[a.h].has_nulls \/ hp[b.h].has_nulls, IsNull, Res))
        ELSE IF aVec /\ ScalarOk(b)
        THEN IF ~q_vec_is_type(hp, a, type) THEN Ret(hp, qv_null)
             ELSE LET IsNull(i) == NullAt(hp, a, i)
                      Res(i) == op(Vals(hp, a)[i], Conv(b))
                  IN  Alloc(hp, CmpOut(Len(Vals(hp, a)), hp[a.h].has_nulls, IsNull, Res))
        ELSE IF bVec /\ ScalarOk(a)
        THEN IF ~q_vec_is_type(hp, b, type) THEN Ret(hp, qv_null)
             ELSE LET IsNull(i) == NullAt(hp, b, i)
                      Res(i) == op(Conv(a), Vals(hp, b)[i])
                  IN  Alloc(hp, CmpOut(Len(Vals(hp, b)), hp[b.h].has_nulls, IsNull, Res))
        ELSE Ret(hp, qv_null)

q_vec_cmp_f64_impl(hp, a, b, op(_, _)) ==
    NumCmp(hp, a, b, "F64", q_is_numeric_scalar, q_to_double_scalar, op)

I64OfIntegral(v) == q_to_i64_scalar(v, 0)

q_vec_cmp_i64_impl(hp, a, b, op(_, _)) ==
    NumCmp(hp, a, b, "I64", q_is_integral_scalar, I64OfIntegral, op)

q_vec_cmp_bool_impl(hp, a, b, op(_, _)) ==
    LET aVec == q_vec_is_type(hp, a, "BOOL")
        bVec == q_vec_is_type(hp, b, "BOOL")
    IN  IF aVec /\ bVec
        THEN IF Len(Vals(hp, a)) # Len(Vals(hp, b)) THEN Ret(hp, qv_null)
             ELSE LET IsNull(i) == NullAt(hp, a, i) \/ NullAt(hp, b, i)
                      Res(i) == op(Vals(hp, a)[i] # 0, Vals(hp, b)[i] # 0)
                  IN  Alloc(hp, CmpOut(Len(Vals(hp, a)),
                                       hp[a.h].has_nulls \/ hp[b.h].has_nulls, IsNull, Res))
        ELSE IF aVec /\ b.type \in {"BOOL", "INT"}
        THEN LET IsNull(i) == NullAt(hp, a, i)
                 Res(i) == op(Vals(hp, a)[i] # 0, BoolOfScalar(b))
             IN  Alloc(hp, CmpOut(Len(Vals(hp, a)), hp[a.h].has_nulls, IsNull, Res))
        ELSE IF bVec /\ a.type \in {"BOOL", "INT"}
        THEN LET IsNull(i) == NullAt(hp, b, i)
                 Res(i) == op(BoolOfScalar(a), Vals(hp, b)[i] # 0)
             IN  Alloc(hp, CmpOut(Len(Vals(hp, b)), hp[b.h].has_nulls, IsNull, Res))
        ELSE Ret(hp, qv_null)

\* a string comparison that, given two vectors, compares over the shorter
\* one instead of rejecting different lengths
StrEqOverShorter(hp, a, b, negate) ==
    LET aStr == q_vec_is_type(hp, a, "STR")
        bStr == q_vec_is_type(hp, b, "STR")
        Strs(v) == q_vec_decode_strings(hp[v.h].storage, hp[v.h].count)
        VecScalar(v, s) ==
            LET IsNull(i) == NullAt(hp, v, i)
                Res(i) == (Strs(v)[i] = s.s) # negate
            IN  Alloc(hp, CmpOut(hp[v.h].count, hp[v.h].has_nulls, IsNull, Res))
    IN  IF aStr /\ bStr
        THEN LET n == IF hp[a.h].count < hp[b.h].count THEN hp[a.h].count
                      ELSE hp[b.h].count
                 IsNull(i) == NullAt(hp, a, i) \/ NullAt(hp, b, i)
                 Res(i) == (Strs(a)[i] = Strs(b)[i]) # negate
             IN  Alloc(hp, CmpOut(n, hp[a.h].has_nulls \/ hp[b.h].has_nulls, IsNull, Res))
        ELSE IF aStr /\ b.type = "STRING" THEN VecScalar(a, b)
        ELSE IF bStr /\ a.type = "STRING" THEN VecScalar(b, a)
        ELSE Ret(hp, qv_null)

\* STR vector against STR vector, or against a scalar string on either side
\* (the scalar-first call swaps its operands and runs the vector-first case)
q_vec_cmp_str_eq(hp, a, b, negate) ==
    LET aStr == q_vec_is_type(hp, a, "STR")
        bStr == q_vec_is_type(hp, b, "STR")
        Strs(v) == q_vec_decode_strings(hp[v.h].storage, hp[v.h].count)
        VecScalar(v, s) ==
            LET IsNull(i) == NullAt(hp, v, i)
                Res(i) == (Strs(v)[i] = s.s) # negate
            IN  Alloc(hp, CmpOut(hp[v.h].count, hp[v.h].has_nulls, IsNull, Res))
    IN  IF aStr /\ bStr
        THEN IF hp[a.h].count # hp[b.h].count THEN Ret(hp, qv_null)
             ELSE LET IsNull(i) == NullAt(hp, a, i) \/ NullAt(hp, b, i)
                      Res(i) == (Strs(a)[i] = Strs(b)[i]) # negate
                  IN  Alloc(hp, CmpOut(hp[a.h].count,
                                       hp[a.h].has_nulls \/ hp[b.h].has_nulls, IsNull, Res))
        ELSE IF aStr /\ b.type = "STRING" THEN VecScalar(a, b)
        ELSE IF bStr /\ a.type = "STRING" THEN VecScalar(b, a)
        ELSE Ret(hp, qv_null)

ILt(x, y) == x < y

ILe(x, y) == x <= y

IGt(x, y) == x > y

IGe(x, y) == x >= y

IEq(x, y) == x = y

INe(x, y) == x # y

FGt(x, y) == FLt(y, x)

FGe(x, y) == FLe(y, x)

FNe(x, y) == ~FEq(x, y)

\* the dispatch shared by q_vec_lt/lte/gt/gte: the I64 template when either
\* operand is an I64 vector and it succeeds, otherwise the F64 template
OrderDispatch(hp, a, b, intPath, fop(_, _)) ==
    IF (q_vec_is_type(hp, a, "I64") \/ q_vec_is_type(hp, b, "I64"))
       /\ intPath.ret.type # "NULL"
    THEN intPath
    ELSE q_vec_cmp_f64_impl(hp, a, b, fop)

q_vec_lt(hp, a, b) == OrderDispatch(hp, a, b, q_vec_cmp_i64_impl(hp, a, b, ILt), FLt)

q_vec_lte(hp, a, b) == OrderDispatch(hp, a, b, q_vec_cmp_i64_impl(hp, a, b, ILe), FLe)

q_vec_gt(hp, a, b) == OrderDispatch(hp, a, b, q_vec_cmp_i64_impl(hp, a, b, IGt), FGt)

q_vec_gte(hp, a, b) == OrderDispatch(hp, a, b, q_vec_cmp_i64_impl(hp, a, b, IGe), FGe)

\* q_vec_eq / q_vec_neq: numeric paths first, then BOOL, then STR
EqDispatch(hp, a, b, intPath, fop(_, _), bop(_, _), negate) ==
    LET numeric == OrderDispatch(hp, a, b, intPath, fop)
        boolPath == q_vec_cmp_bool_impl(hp, a, b, bop)
    IN  IF numeric.ret.type # "NULL" THEN numeric
        ELSE IF boolPath.ret.type # "NULL" THEN boolPath
        ELSE q_vec_cmp_str_eq(hp, a, b, negate)

q_vec_eq(hp, a, b) ==
    EqDispatch(hp, a, b, q_vec_cmp_i64_impl(hp, a, b, IEq), FEq, IEq, FALSE)

q_vec_neq(hp, a, b) ==
    EqDispatch(hp, a, b, q_vec_cmp_i64_impl(hp, a, b, INe), FNe, INe, TRUE)

\* ------------------------------------------------------------------------
\* Scalar indexing and mask filtering
\* ------------------------------------------------------------------------
\* A 64-bit index is carried as its low 32 bits read as a signed int (field i)
\* and the remaining high part (field hi, absent when 0): the index is
\* hi * 2^32 + i.
Hi(index) == IF "hi" \in DOMAIN index THEN index.hi ELSE 0

qv_int_wide(hi, lo) == IF hi = 0 THEN qv_int(lo) ELSE [type |-> "INT", i |-> lo, hi |-> hi]

\* static_cast<int>(long long): the low 32 bits
CastToInt(index) == index.i

q_vec_get_scalar(hp, vec, index) ==
    IF ~q_vec_has_valid_handle(hp, vec) THEN qv_null
    ELSE IF index.type # "INT" THEN qv_null
    ELSE LET v == hp[vec.h]
             len == v.count
             idx0 == CastToInt(index)
             idx == IF idx0 < 0 THEN len + idx0 ELSE idx0
         IN  IF idx < 0 \/ idx >= len THEN qv_null
             ELSE IF q_vec_is_null_at(v, idx) THEN qv_null
             ELSE CASE v.type = "F64" -> qv_float(v.storage.vals[idx + 1])
                    [] v.type = "I64" -> qv_int(v.storage.vals[idx + 1])
                    [] v.type = "BOOL" -> qv_bool(v.storage.vals[idx + 1] # 0)
                    [] v.type = "STR" ->
                         qv_string(SubSeq(v.storage.bytes, v.storage.offsets[idx + 1] + 1,
                                          v.storage.offsets[idx + 2]))
                    [] OTHER -> qv_null

\* a selection that reads the mask's payload only, null or not
RECURSIVE SelectedIgnoringNulls(_, _)
SelectedIgnoringNulls(mv, i) ==
    IF i > mv.count THEN <<>>
    ELSE (IF mv.storage.vals[i] # 0 THEN <<i>> ELSE <<>>) \o SelectedIgnoringNulls(mv, i + 1)

\* the positions i..count (1-based) the mask selects: not null and nonzero
RECURSIVE Selected(_, _)
Selected(mv, i) ==
    IF i > mv.count THEN <<>>
    ELSE (IF ~q_vec_is_null_at(mv, i - 1) /\ mv.storage.vals[i] # 0 THEN <<i>> ELSE <<>>)
         \o Selected(mv, i + 1)

q_vec_mask_filter(hp, data, mask) ==
    IF ~q_vec_has_valid_handle(hp, data) \/ ~q_vec_has_valid_handle(hp, mask)
    THEN Ret(hp, qv_null)
    ELSE LET dv == hp[data.h]
             mv == hp[mask.h]
         IN  IF mv.type # "BOOL" THEN Ret(hp, qv_null)
             ELSE IF dv.count # mv.count THEN Ret(hp, qv_null)
             ELSE LET sel == Selected(mv, 1)
                      k == Len(sel)
                      hasNulls == \E j \in 1..k : q_vec_is_null_at(dv, sel[j] - 1)
                      nulls == IF hasNulls
                               THEN [j \in 1..k |-> U8(q_vec_is_null_at(dv, sel[j] - 1))]
                               ELSE <<>>
                      Out(storage) ==
                          [type |-> dv.type, count |-> k, has_nulls |-> hasNulls,
                           storage |-> storage, nulls |-> nulls]
                  IN  IF dv.type \in {"F64", "I64", "BOOL"}
                      THEN Alloc(hp, Out([kind |-> dv.storage.kind,
                                          vals |-> [j \in 1..k |-> dv.storage.vals[sel[j]]]]))
                      ELSE IF dv.type = "STR"
                      THEN LET strs == q_vec_decode_strings(dv.storage, dv.count)
                           IN  Alloc(hp, Out(q_vec_encode_strings([j \in 1..k |-> strs[sel[j]]])))
                      ELSE Ret(hp, qv_null)

\* ------------------------------------------------------------------------
\* Operator dispatch: ops/comparison.hpp
\* ------------------------------------------------------------------------
\* q_lt, q_lte, q_gt, q_gte test only for a Float operand and otherwise compare
\* data.int_val of both operands.  For an operand that is not an Int (a vector
\* handle among them) that reads the union through the wrong member: the bits
\* read are whatever the build holds there, so the comparison has either
\* outcome (raw).
either_float(a, b) == a.type = "FLOAT" \/ b.type = "FLOAT"

\* the double of the whole value hi * 2^32 + lo (field hi absent when 0)
FinWide(hi, lo) == IF hi = 0 THEN Fin(lo, 1) ELSE [c |-> "fin", n |-> lo, d |-> 1, hi |-> hi]

\* static_cast<double>(long long) of hi * 2^32 + lo for 0 < hi <= 2^21 and
\* lo >= 0: exact up to 2^53 (hi = 2^21, lo = 0); above it doubles are the
\* even numbers and the cast rounds to the nearest, a tie to the multiple of 4
WideToDouble(hi, lo) ==
    CASE hi > 0 /\ hi < 2097152 -> FinWide(hi, lo)
      [] hi = 2097152 /\ lo >= 0 /\ lo % 2 = 0 -> FinWide(hi, lo)
      [] hi = 2097152 /\ lo >= 0 /\ lo % 4 = 1 -> FinWide(hi, lo - 1)
      [] hi = 2097152 /\ lo >= 0 /\ lo % 4 = 3 -> FinWide(hi, lo + 1)

\* a conversion that keeps every Int exactly
ToDoubleExact(v) == IF v.type = "FLOAT" THEN v.f ELSE FinWide(Hi(v), v.i)

to_double(v) ==
    IF v.type = "FLOAT" THEN v.f
    ELSE IF Hi(v) = 0 THEN IntToDouble(v.i)
    ELSE WideToDouble(v.hi, v.i)

ScalarOrder(a, b, iop(_, _), fop(_, _), raw) ==
    IF a.type \in {"INT", "FLOAT"} /\ b.type \in {"INT", "FLOAT"}
    THEN IF either_float(a, b) THEN qv_bool(fop(to_double(a), to_double(b)))
         ELSE qv_bool(iop(a.i, b.i))
    ELSE qv_bool(raw)

q_lt(hp, a, b, raw) == Ret(hp, ScalarOrder(a, b, ILt, FLt, raw))

q_lte(hp, a, b, raw) == Ret(hp, ScalarOrder(a, b, ILe, FLe, raw))

q_gt(hp, a, b, raw) == Ret(hp, ScalarOrder(a, b, IGt, FGt, raw))

q_gte(hp, a, b, raw) == Ret(hp, ScalarOrder(a, b, IGe, FGe, raw))

\* q_eq: variants differ -> false unless both numeric; same variant -> by
\* payload for Int/Float/Bool/String, true for Null, false for the rest
q_eq_val(a, b) ==
    IF a.type # b.type
    THEN IF a.type \in {"INT", "FLOAT"} /\ b.type \in {"INT", "FLOAT"}
         THEN qv_bool(FEq(to_double(a), to_double(b)))
         ELSE qv_bool(FALSE)
    ELSE CASE a.type = "INT" -> qv_bool(a.i = b.i /\ Hi(a) = Hi(b))
           [] a.type = "FLOAT" -> qv_bool(FEq(a.f, b.f))
           [] a.type = "BOOL" -> qv_bool(a.b = b.b)
           [] a.type = "STRING" -> qv_bool(a.s = b.s)
           [] a.type = "NULL" -> qv_bool(TRUE)
           [] OTHER -> qv_bool(FALSE)

q_eq(hp, a, b) == Ret(hp, q_eq_val(a, b))

q_neq(hp, a, b) == Ret(hp, qv_bool(~q_eq_val(a, b).b))

\* ------------------------------------------------------------------------
\* Scalar arithmetic (ops/arithmetic.hpp)
\* ------------------------------------------------------------------------
\* both operands are Int or Float: the guard every numeric operator applies
BothNumeric(a, b) == a.type \in {"INT", "FLOAT"} /\ b.type \in {"INT", "FLOAT"}

q_add(hp, a, b) ==
    IF a.type = "VECTOR" \/ b.type = "VECTOR" THEN q_vec_add(hp, a, b)
    ELSE IF a.type = "STRING" /\ b.type = "STRING" THEN Ret(hp, qv_string(a.s \o b.s))
    ELSE IF ~BothNumeric(a, b) THEN Ret(hp, qv_null)
    ELSE IF either_float(a, b) THEN Ret(hp, qv_float(FAdd(to_double(a), to_double(b))))
    ELSE Ret(hp, qv_int(a.i + b.i))

q_sub(hp, a, b) ==
    IF a.type = "VECTOR" \/ b.type = "VECTOR" THEN q_vec_sub(hp, a, b)
    ELSE IF ~BothNumeric(a, b) THEN Ret(hp, qv_null)
    ELSE IF either_float(a, b) THEN Ret(hp, qv_float(FSub(to_double(a), to_double(b))))
    ELSE Ret(hp, qv_int(a.i - b.i))

q_mul(hp, a, b) ==
    IF a.type = "VECTOR" \/ b.type = "VECTOR" THEN q_vec_mul(hp, a, b)
    ELSE IF ~BothNumeric(a, b) THEN Ret(hp, qv_null)
    ELSE IF either_float(a, b) THEN Ret(hp, qv_float(FMul(to_double(a), to_double(b))))
    ELSE Ret(hp, qv_int(a.i * b.i))

\* a division that keeps the quotient of two Ints an Int
DivKeepingInt(hp, a, b) ==
    IF a.type = "VECTOR" \/ b.type = "VECTOR" THEN q_vec_div(hp, a, b)
    ELSE IF ~BothNumeric(a, b) THEN Ret(hp, qv_null)
    ELSE IF FEq(to_double(b), FZero) THEN Ret(hp, qv_null)
    ELSE IF either_float(a, b) THEN Ret(hp, qv_float(FDiv(to_double(a), to_double(b))))
    ELSE Ret(hp, qv_int(DoubleToI64(FDiv(to_double(a), to_double(b)), 0)))

\* a division that does not look at the divisor
DivUnguarded(hp, a, b) ==
    IF a.type = "VECTOR" \/ b.type = "VECTOR" THEN q_vec_div(hp, a, b)
    ELSE IF ~BothNumeric(a, b) THEN Ret(hp, qv_null)
    ELSE Ret(hp, qv_float(FDiv(to_double(a), to_double(b))))

q_div(hp, a, b) ==
    IF a.type = "VECTOR" \/ b.type = "VECTOR" THEN q_vec_div(hp, a, b)
    ELSE IF ~BothNumeric(a, b) THEN Ret(hp, qv_null)
    ELSE IF FEq(to_double(b), FZero) THEN Ret(hp, qv_null)
    ELSE Ret(hp, qv_float(FDiv(to_double(a), to_double(b))))

\* the remainder of floored division, which takes the sign of the divisor
FlooredRem(a, b) == IF b > 0 THEN a % b ELSE -((-a) % (-b))

\* a % b on long long: the remainder of the division truncated toward zero,
\* which takes the sign of a
CRem(a, b) == IF a < 0 THEN -((-a) % Abs(b)) ELSE a % Abs(b)

q_mod(a, b) ==
    IF a.type # "INT" \/ b.type # "INT" THEN qv_null
    ELSE IF b.i = 0 THEN qv_null
    ELSE qv_int(CRem(a.i, b.i))

\* x multiplied k times
RECURSIVE PowNat(_, _)
PowNat(x, k) == IF k = 0 THEN Fin(1, 1) ELSE FMul(x, PowNat(x, k - 1))

IsPow2(n) == \E k \in 0..30 : 2^k = n

\* the finite arguments for which std::pow has an exact result
PowExact(x, y) ==
    \/ y.n = 0
    \/ x = Fin(1, 1)
    \/ y.d = 1 /\ y.n > 0
    \/ y.d = 1 /\ y.n < 0 /\ (x.n = 0 \/ IsPow2(Abs(x.n)))
    \/ y.d # 1 /\ x.n <= 0

\* the double s * 2^e for s = 1 or -1 and e >= 32, a magnitude the fraction
\* n / d does not hold: field e carries the exponent
Pow2D(s, e) == [c |-> "fin", n |-> s, d |-> 1, e |-> e]

\* the exponent of such a double, 0 for every other double
BigExp(x) == IF "e" \in DOMAIN x THEN x.e ELSE 0

\* x is 2 or -2 and y a whole number from 32 on: the power is 2^y or -2^y
BigPow(x, y) == x.d = 1 /\ Abs(x.n) = 2 /\ y.d = 1 /\ y.n >= 32

\* std::pow(x, y) on finite doubles, where it is exact
Pow(x, y) ==
    CASE y.n = 0 -> Fin(1, 1)
      [] y.n # 0 /\ x = Fin(1, 1) -> Fin(1, 1)
      [] BigPow(x, y) -> Pow2D(IF x.n < 0 /\ y.n % 2 = 1 THEN -1 ELSE 1, y.n)
      [] y.d = 1 /\ y.n > 0 /\ x # Fin(1, 1) /\ ~BigPow(x, y) -> PowNat(x, y.n)
      [] y.d = 1 /\ y.n < 0 /\ x.n = 0 -> PInf
      [] y.d = 1 /\ y.n < 0 /\ IsPow2(Abs(x.n)) /\ x # Fin(1, 1) ->
            FDiv(Fin(1, 1), PowNat(x, -y.n))
      [] y.d # 1 /\ x.n < 0 -> NaN
      [] y.d # 1 /\ x.n = 0 -> IF y.n > 0 THEN FZero ELSE PInf

\* result > (double)LLONG_MAX or result < (double)LLONG_MIN, both 2^63 in
\* magnitude: |x| > 2^63, with |x| / 2^63 taken in steps of 2^15 and 2^16
BeyondLLong(x) ==
    LET q0 == Abs(x.n) \div x.d
        q1 == q0 \div 32768
        q2 == q1 \div 65536
        q3 == q2 \div 65536
        q4 == q3 \div 65536
        rest == \/ Abs(x.n) % x.d # 0
                \/ q0 % 32768 # 0
                \/ q1 % 65536 # 0
                \/ q2 % 65536 # 0
                \/ q3 % 65536 # 0
    IN  /\ x.c = "fin"
        /\ IF BigExp(x) # 0 THEN BigExp(x) > 63 ELSE (q4 >= 2 \/ (q4 = 1 /\ rest))

\* static_cast<long long>(x) of a finite double that passed the guard above,
\* as a QValue: 2^63 itself passes it and is not a long long, so its cast is
\* undefined and gives whatever the build produces (ub)
CastToLongLong(x, ub) ==
    IF BigExp(x) = 0 THEN qv_int(DoubleToI64(x, ub))
    ELSE IF BigExp(x) < 63 THEN qv_int_wide(x.n * 2^(BigExp(x) - 32), 0)
    ELSE IF x.n < 0 THEN qv_int_wide((-(2^30)) * 2, 0)
    ELSE qv_int(ub)

q_pow(a, b, ub) ==
    IF ~BothNumeric(a, b) THEN qv_null
    ELSE LET result == Pow(to_double(a), to_double(b))
         IN  IF either_float(a, b) THEN qv_float(result)
             ELSE IF BeyondLLong(result) \/ NonFinite(result) THEN qv_float(result)
             ELSE CastToLongLong(result, ub)

\* a negation that takes a Bool for the Int 0 or 1
NegCoercing(a) ==
    IF a.type = "BOOL" THEN qv_int(IF a.b THEN -1 ELSE 0)
    ELSE IF a.type \notin {"INT", "FLOAT"} THEN qv_null
    ELSE IF a.type = "FLOAT" THEN qv_float(FNeg(a.f))
    ELSE qv_int(-a.i)

q_neg(a) ==
    IF a.type \notin {"INT", "FLOAT"} THEN qv_null
    ELSE IF a.type = "FLOAT" THEN qv_float(FNeg(a.f))
    ELSE qv_int(-a.i)

\* ------------------------------------------------------------------------
\* Lists held by handle (types/list.hpp): a QValue of kind VAL_LIST carries
\* the pointer list_val to a QList, and the operations below change that
\* QList in place
\* ------------------------------------------------------------------------
\* the QList object
QList(items) == [type |-> "LIST", items |-> items]

\* a QValue of kind VAL_LIST holding the handle h
ListVal(h) == [type |-> "LIST", h |-> h]

\* new QList(items): the object gets the next free handle
qv_list_from(hp, items) == [ret |-> ListVal(Len(hp) + 1), heap |-> Append(hp, QList(items))]

\* list.type != VAL_LIST || !list.data.list_val
q_list_missing(hp, list) ==
    \/ list.type # "LIST"
    \/ "h" \notin DOMAIN list
    \/ list.h \notin DOMAIN hp

\* idx after "if (idx < 0) idx = len + idx", or -1 when it is out of range
ListIndex(index, len) ==
    LET idx == IF CastToInt(index) < 0 THEN len + CastToInt(index) ELSE CastToInt(index)
    IN  IF idx < 0 \/ idx >= len THEN -1 ELSE idx

\* the sequence without its element k (1-based)
Erase(items, k) == SubSeq(items, 1, k - 1) \o SubSeq(items, k + 1, Len(items))

q_push(hp, list, item) ==
    IF q_list_missing(hp, list) THEN Ret(hp, qv_null)
    ELSE [ret |-> list, heap |-> [hp EXCEPT ![list.h].items = Append(@, item)]]

q_pop(hp, list) ==
    IF q_list_missing(hp, list) THEN Ret(hp, qv_null)
    ELSE IF hp[list.h].items = <<>> THEN Ret(hp, qv_null)
    ELSE LET items == hp[list.h].items
         IN  [ret |-> items[Len(items)],
              heap |-> [hp EXCEPT ![list.h].items = SubSeq(items, 1, Len(items) - 1)]]

q_set(hp, list, index, value) ==
    IF q_list_missing(hp, list) THEN Ret(hp, qv_null)
    ELSE IF index.type # "INT" THEN Ret(hp, qv_null)
    ELSE LET idx == ListIndex(index, Len(hp[list.h].items))
         IN  IF idx < 0 THEN Ret(hp, qv_null)
             ELSE [ret |-> value, heap |-> [hp EXCEPT ![list.h].items[idx + 1] = value]]

q_insert(hp, list, index, item) ==
    IF q_list_missing(hp, list) THEN Ret(hp, qv_null)
    ELSE IF index.type # "INT" THEN Ret(hp, qv_null)
    ELSE LET items == hp[list.h].items
             len == Len(items)
             raw == IF CastToInt(index) < 0 THEN len + CastToInt(index) ELSE CastToInt(index)
             idx == IF raw < 0 THEN 0 ELSE IF raw > len THEN len ELSE raw
         IN  [ret |-> list,
              heap |-> [hp EXCEPT ![list.h].items =
                          SubSeq(items, 1, idx) \o <<item>> \o SubSeq(items, idx + 1, len)]]

q_remove(hp, list, index) ==
    IF q_list_missing(hp, list) THEN Ret(hp, qv_null)
    ELSE IF index.type # "INT" THEN Ret(hp, qv_null)
    ELSE LET items == hp[list.h].items
             idx == ListIndex(index, Len(items))
         IN  IF idx < 0 THEN Ret(hp, qv_null)
             ELSE [ret |-> items[idx + 1],
                   heap |-> [hp EXCEPT ![list.h].items = Erase(items, idx + 1)]]

q_reverse(hp, list) ==
    IF q_list_missing(hp, list) THEN Ret(hp, qv_null)
    ELSE LET items == hp[list.h].items
         IN  [ret |-> list,
              heap |-> [hp EXCEPT ![list.h].items =
                          [i \in 1..Len(items) |-> items[Len(items) + 1 - i]]]]

\* q_get: a String container goes to q_str_get, which is not among the
\* sources, so no case is given for it; every container that is not a list
\* (a vector among them) gets Null
q_get(hp, list, index) ==
    CASE list.type # "STRING" ->
            IF q_list_missing(hp, list) THEN qv_null
            ELSE IF index.type # "INT" THEN qv_null
            ELSE LET idx == ListIndex(index, Len(hp[list.h].items))
                 IN  IF idx < 0 THEN qv_null ELSE hp[list.h].items[idx + 1]

\* ------------------------------------------------------------------------
\* Inputs of the exploration
\* ------------------------------------------------------------------------
Ints == {0, 1}

Floats == {Fin(3, 2)}

Strings == {<<"a">>}

DtypeNames == {<<"f", "6", "4">>, <<"i", "6", "4">>, <<"b", "o", "o", "l">>, <<"s", "t", "r">>}

Scalars ==
    {qv_int(i) : i \in Ints} \cup {qv_float(f) : f \in Floats}
    \cup {qv_bool(TRUE), qv_null} \cup {qv_string(s) : s \in Strings}

\* list literals handed to q_to_vector
ListItems == {qv_null, qv_int(1), qv_float(Fin(3, 2)), qv_string(<<"a">>), qv_bool(TRUE)}

SeqsUpTo(S, n) == UNION {[1..k -> S] : k \in 0..n}

\* list items of every kind of value
AnyItems == ListItems \cup {qv_list_init(<<>>), qv_dict, qv_func, qv_ok(qv_null), VecVal(1)}

AnyLists == {qv_list_init(items) : items \in SeqsUpTo(AnyItems, MaxLen)}

Lists == {qv_list_init(items) : items \in SeqsUpTo(ListItems, MaxLen)}

Handles(hp) == {VecVal(h) : h \in DOMAIN hp}

Operands(hp) == Handles(hp) \cup Scalars

\* scalar operands of a kernel: one of each kind a kernel tells apart
KernelScalars == {qv_int(1), qv_float(Fin(3, 2)), qv_bool(TRUE), qv_string(<<"a">>)}

KernelArgs(hp) ==
    (Handles(hp) \X (Handles(hp) \cup KernelScalars)) \cup (KernelScalars \X Handles(hp))

NoCall == [op |-> "none"]

\* ------------------------------------------------------------------------
\* The program, from construction: any sequence of calls of the public
\* vector operations.  The program keeps at most MaxVecs vectors alive: when
\* a call allocates one more, an older one has been dropped and reclaimed
\* (core/gc.hpp), which renumbers the handles above it.  Vectors grow to at
\* most MaxLen elements and payloads stay inside the windows below.
\* A kernel is called with at least one vector operand (operator dispatch
\* sends scalar pairs to the scalar operators).
\* ------------------------------------------------------------------------
F64Window == {FZero, Fin(3, 2)}

I64Window == {0, 1}

InWindow(vec) ==
    /\ vec.count <= MaxLen
    /\ vec.type = "F64" => \A i \in 1..Len(vec.storage.vals) : vec.storage.vals[i] \in F64Window
    /\ vec.type = "I64" => \A i \in 1..Len(vec.storage.vals) : vec.storage.vals[i] \in I64Window

Release(hp, d) ==
    IF d = 0 THEN hp
    ELSE [i \in 1..(Len(hp) - 1) |-> IF i < d THEN hp[i] ELSE hp[i + 1]]

Run(op, r) ==
    LET hp == r.heap
    IN  /\ \A h \in DOMAIN hp : InWindow(hp[h])
        /\ \E d \in (IF Len(hp) <= MaxVecs THEN {0} ELSE DOMAIN heap) :
              /\ heap' = Release(hp, d)
              /\ UNCHANGED last

Init == heap = <<>> /\ last = NoCall

NewVector == Run("qv_vector", qv_vector(heap))

NewVectorI64 == Run("qv_vector_i64", qv_vector_i64(heap))

NewVectorBool == Run("qv_vector_bool", qv_vector_bool(heap))

NewVectorStr == Run("qv_vector_str", qv_vector_str(heap))

Push == \E v \in Handles(heap), s \in Scalars : Run("q_vec_push", q_vec_push(heap, v, s))

PushI64 ==
    \E v \in Handles(heap), s \in Scalars :
        \E ub \in UBChoices(s.type = "FLOAT" /\ NonFinite(s.f)) :
            Run("q_vec_push_i64", q_vec_push_i64(heap, v, s, ub))

PushBool ==
    \E v \in Handles(heap), s \in Scalars : Run("q_vec_push_bool", q_vec_push_bool(heap, v, s))

SetNullAt ==
    \E v \in Handles(heap), i \in 0..MaxLen, b \in BOOLEAN :
        Run("q_vec_set_null_at", q_vec_set_null_at(heap, v, i, b))

Fillna ==
    \E v \in Handles(heap), s \in Scalars :
        \E ub \in UBChoices(s.type = "FLOAT" /\ NonFinite(s.f)) :
            Run("q_fillna", q_fillna(heap, v, s, ub))

HasNonFinite(vec) ==
    vec.type = "F64" /\ \E i \in 1..Len(vec.storage.vals) : NonFinite(vec.storage.vals[i])

Astype ==
    \E v \in Handles(heap), t \in DtypeNames :
        \E ub \in UBChoices(HasNonFinite(heap[v.h])) :
            Run("q_astype", q_astype(heap, v, qv_string(t), ub))

ToVector == \E x \in Handles(heap) \cup Lists : Run("q_to_vector", q_to_vector(heap, x))

Clone == \E v \in Handles(heap) : Run("q_vec_clone", q_vec_clone(heap, v))

VecAdd == \E ab \in KernelArgs(heap) : Run("q_vec_add", q_vec_add(heap, ab[1], ab[2]))

VecSub == \E ab \in KernelArgs(heap) : Run("q_vec_sub", q_vec_sub(heap, ab[1], ab[2]))

VecMul == \E ab \in KernelArgs(heap) : Run("q_vec_mul", q_vec_mul(heap, ab[1], ab[2]))

VecDiv == \E ab \in KernelArgs(heap) : Run("q_vec_div", q_vec_div(heap, ab[1], ab[2]))

VecLt == \E ab \in KernelArgs(heap) : Run("q_vec_lt", q_vec_lt(heap, ab[1], ab[2]))

VecLte == \E ab \in KernelArgs(heap) : Run("q_vec_lte", q_vec_lte(heap, ab[1], ab[2]))

VecGt == \E ab \in KernelArgs(heap) : Run("q_vec_gt", q_vec_gt(heap, ab[1], ab[2]))

VecGte == \E ab \in KernelArgs(heap) : Run("q_vec_gte", q_vec_gte(heap, ab[1], ab[2]))

VecEq == \E ab \in KernelArgs(heap) : Run("q_vec_eq", q_vec_eq(heap, ab[1], ab[2]))

VecNeq == \E ab \in KernelArgs(heap) : Run("q_vec_neq", q_vec_neq(heap, ab[1], ab[2]))

MaskFilter ==
    \E d, m \in Handles(heap) : Run("q_vec_mask_filter", q_vec_mask_filter(heap, d, m))

Next ==
    \/ NewVector
    \/ NewVectorI64
    \/ NewVectorBool
    \/ NewVectorStr
    \/ Push
    \/ PushI64
    \/ PushBool
    \/ SetNullAt
    \/ Fillna
    \/ Astype
    \/ ToVector
    \/ Clone
    \/ VecAdd
    \/ VecSub
    \/ VecMul
    \/ VecDiv
    \/ VecLt
    \/ VecLte
    \/ VecGt
    \/ VecGte
    \/ VecEq
    \/ VecNeq
    \/ MaskFilter

Spec == Init /\ [][Next]_vars

\* ------------------------------------------------------------------------
\* One call on given operands.  The operands are vectors the program has
\* built: a constructor, pushes of the payloads, then either no mask or
\* q_vec_set_null_at on every element (a Str vector is built in bulk by
\* q_to_vector from a list of strings, the empty one by qv_vector_str).  The initial heap holds no vector,
\* one, or two; one action applies one operation to it, and last records
\* the call: its name, its arguments, what it returned and the heap it ran on.
\* ------------------------------------------------------------------------
F64Payloads == {qv_int(0), qv_int(1), qv_float(Fin(3, 2))}

I64Payloads == {qv_int(0), qv_int(1)}

BoolPayloads == {qv_bool(FALSE), qv_bool(TRUE)}

StrPayloads == {qv_string(<<"a">>), qv_string(<<"b", "c">>)}

\* no mask, or one flag per element
Masks(n) == {<<>>} \cup (IF n > 0 THEN [1..n -> {0, 1}] ELSE {})

RECURSIVE PushAll(_, _, _, _)
PushAll(hp, type, elems, i) ==
    IF i > Len(elems) THEN hp
    ELSE PushAll(CASE type = "F64" -> q_vec_push(hp, VecVal(1), elems[i]).heap
                   [] type = "I64" -> q_vec_push_i64(hp, VecVal(1), elems[i], 0).heap
                   [] type = "BOOL" -> q_vec_push_bool(hp, VecVal(1), elems[i]).heap,
                 type, elems, i + 1)

RECURSIVE MarkAll(_, _, _)
MarkAll(hp, mask, i) ==
    IF i > Len(mask) THEN hp
    ELSE MarkAll(q_vec_set_null_at(hp, VecVal(1), i - 1, mask[i] = 1).heap, mask, i + 1)

Build(type, elems, mask) ==
    LET made == CASE type = "F64" -> PushAll(qv_vector(<<>>).heap, type, elems, 1)
                  [] type = "I64" -> PushAll(qv_vector_i64(<<>>).heap, type, elems, 1)
                  [] type = "BOOL" -> PushAll(qv_vector_bool(<<>>).heap, type, elems, 1)
                  [] type = "STR" -> IF elems = <<>> THEN qv_vector_str(<<>>).heap
                                      ELSE q_to_vector(<<>>, qv_list_init(elems)).heap
    IN  MarkAll(made, mask, 1)[1]

BuiltOf(type, payloads) ==
    {Build(type, elems, mask) : <<elems, mask>> \in
        UNION {[1..n -> payloads] \X Masks(n) : n \in 0..MaxLen}}

Built ==
    BuiltOf("F64", F64Payloads) \cup BuiltOf("I64", I64Payloads)
    \cup BuiltOf("BOOL", BoolPayloads) \cup BuiltOf("STR", StrPayloads)

InitOps ==
    /\ heap \in {<<>>} \cup {<<a>> : a \in Built} \cup {<<a, b>> : a \in Built, b \in Built}
    /\ last = NoCall

Once(op, a, b, r) ==
    /\ last = NoCall
    /\ heap' = r.heap
    /\ last' = [op |-> op, a |-> a, b |-> b, ret |-> r.ret, pre |-> heap]

V1 == VecVal(1)

V2 == VecVal(2)

\* the operand pairs of a binary call: the two vectors, or the one vector
\* with itself or with a scalar on either side
ArgPairs ==
    IF Len(heap) = 2 THEN {<<V1, V2>>}
    ELSE IF Len(heap) = 1
    THEN {<<V1, V1>>} \cup {<<V1, s>> : s \in Scalars} \cup {<<s, V1>> : s \in Scalars}
    ELSE {}

CallPush ==
    /\ Len(heap) = 1
    /\ \E s \in Scalars : Once("q_vec_push", V1, s, q_vec_push(heap, V1, s))

CallPushI64 ==
    /\ Len(heap) = 1
    /\ \E s \in Scalars : \E ub \in UBChoices(s.type = "FLOAT" /\ NonFinite(s.f)) :
          Once("q_vec_push_i64", V1, s, q_vec_push_i64(heap, V1, s, ub))

CallPushBool ==
    /\ Len(heap) = 1
    /\ \E s \in Scalars : Once("q_vec_push_bool", V1, s, q_vec_push_bool(heap, V1, s))

CallSetNullAt ==
    /\ Len(heap) = 1
    /\ \E i \in 0..(MaxLen + 1), b \in BOOLEAN :
          Once("q_vec_set_null_at", V1, [index |-> i, is_null |-> b],
               q_vec_set_null_at(heap, V1, i, b))

CallFillna ==
    /\ Len(heap) = 1
    /\ \E s \in Scalars : \E ub \in UBChoices(s.type = "FLOAT" /\ NonFinite(s.f)) :
          Once("q_fillna", V1, s, q_fillna(heap, V1, s, ub))

\* two calls of q_fillna on the same vector, one after the other: first is
\* what the first call returned and mid the heap it left
CallFillnaAgain ==
    /\ last = NoCall
    /\ Len(heap) = 1
    /\ \E s1 \in Scalars, s2 \in Scalars :
          LET r1 == q_fillna(heap, V1, s1, 0)
              r2 == q_fillna(r1.heap, V1, s2, 0)
          IN  /\ heap' = r2.heap
              /\ last' = [op |-> "q_fillna;q_fillna", a |-> V1,
                          b |-> [first |-> s1, second |-> s2],
                          ret |-> r2.ret, pre |-> heap,
                          first |-> r1.ret, mid |-> r1.heap]

CallAstype ==
    /\ Len(heap) = 1
    /\ \E dtype \in {qv_string(t) : t \in DtypeNames} \cup {qv_int(1)} :
          \E ub \in UBChoices(HasNonFinite(heap[1])) :
              Once("q_astype", V1, dtype, q_astype(heap, V1, dtype, ub))

CallVecAdd ==
    \E ab \in ArgPairs : Once("q_vec_add", ab[1], ab[2], q_vec_add(heap, ab[1], ab[2]))

CallVecSub ==
    \E ab \in ArgPairs : Once("q_vec_sub", ab[1], ab[2], q_vec_sub(heap, ab[1], ab[2]))

CallVecMul ==
    \E ab \in ArgPairs : Once("q_vec_mul", ab[1], ab[2], q_vec_mul(heap, ab[1], ab[2]))

CallVecDiv ==
    \E ab \in ArgPairs : Once("q_vec_div", ab[1], ab[2], q_vec_div(heap, ab[1], ab[2]))

CallVecLt ==
    \E ab \in ArgPairs : Once("q_vec_lt", ab[1], ab[2], q_vec_lt(heap, ab[1], ab[2]))

CallVecLte ==
    \E ab \in ArgPairs : Once("q_vec_lte", ab[1], ab[2], q_vec_lte(heap, ab[1], ab[2]))

CallVecGt ==
    \E ab \in ArgPairs : Once("q_vec_gt", ab[1], ab[2], q_vec_gt(heap, ab[1], ab[2]))

CallVecGte ==
    \E ab \in ArgPairs : Once("q_vec_gte", ab[1], ab[2], q_vec_gte(heap, ab[1], ab[2]))

CallVecEq ==
    \E ab \in ArgPairs : Once("q_vec_eq", ab[1], ab[2], q_vec_eq(heap, ab[1], ab[2]))

CallVecNeq ==
    \E ab \in ArgPairs : Once("q_vec_neq", ab[1], ab[2], q_vec_neq(heap, ab[1], ab[2]))

CallMaskFilter ==
    \E ab \in ArgPairs : Once("q_vec_mask_filter", ab[1], ab[2], q_vec_mask_filter(heap, ab[1], ab[2]))

\* the outcomes of reading data.int_val of an operand that is not numeric
RawChoices(a, b) ==
    IF a.type \in {"INT", "FLOAT"} /\ b.type \in {"INT", "FLOAT"} THEN {FALSE} ELSE BOOLEAN

CallLt ==
    /\ Len(heap) = 1
    /\ \E ab \in ArgPairs : \E raw \in RawChoices(ab[1], ab[2]) :
          Once("q_lt", ab[1], ab[2], q_lt(heap, ab[1], ab[2], raw))

CallLte ==
    /\ Len(heap) = 1
    /\ \E ab \in ArgPairs : \E raw \in RawChoices(ab[1], ab[2]) :
          Once("q_lte", ab[1], ab[2], q_lte(heap, ab[1], ab[2], raw))

CallGt ==
    /\ Len(heap) = 1
    /\ \E ab \in ArgPairs : \E raw \in RawChoices(ab[1], ab[2]) :
          Once("q_gt", ab[1], ab[2], q_gt(heap, ab[1], ab[2], raw))

CallGte ==
    /\ Len(heap) = 1
    /\ \E ab \in ArgPairs : \E raw \in RawChoices(ab[1], ab[2]) :
          Once("q_gte", ab[1], ab[2], q_gte(heap, ab[1], ab[2], raw))

\* scalar operands of the arithmetic operators: Ints and Floats of either
\* sign and zero, and one value of every other kind
ScalarValues ==
    {qv_int(i) : i \in {-3, 0, 2, 3, 6}}
    \cup {qv_float(f) : f \in {FZero, Fin(3, 2), Fin(3, 1)}}
    \cup {qv_bool(TRUE), qv_null, qv_string(<<"a">>), qv_string(<<"b">>),
          qv_list_init(<<>>), qv_dict, qv_func, qv_ok(qv_null)}

\* the operand pairs of a scalar operator: two scalars, or the one vector
\* with itself or with a scalar on either side
ScalarArgs == IF Len(heap) = 0 THEN ScalarValues \X ScalarValues ELSE ArgPairs

\* operands of the equality operators: the scalar operands, both Bools, a
\* list with an item, and Ints and Floats around 2^53 = 2097152 * 2^32
EqValues ==
    ScalarValues
    \cup {qv_int(1), qv_bool(FALSE), qv_list_init(<<qv_int(1)>>)}
    \cup {qv_int_wide(2097152, lo) : lo \in 0..3}
    \cup {qv_float(FinWide(2097152, lo)) : lo \in {0, 2, 4}}

EqArgs == IF Len(heap) = 0 THEN EqValues \X EqValues ELSE ArgPairs

CallEq ==
    /\ Len(heap) <= 1
    /\ \E ab \in EqArgs : Once("q_eq", ab[1], ab[2], q_eq(heap, ab[1], ab[2]))

CallNeq ==
    /\ Len(heap) <= 1
    /\ \E ab \in EqArgs : Once("q_neq", ab[1], ab[2], q_neq(heap, ab[1], ab[2]))

\* 64-bit indices: small ones, and ones whose high part is not zero
Indices ==
    {qv_int_wide(hi, lo) : hi \in {-1, 0, 1}, lo \in (-(MaxLen + 2))..(MaxLen + 2)}

CallGetScalar ==
    /\ Len(heap) = 1
    /\ \E index \in Indices \cup {qv_float(FZero), qv_null} :
          Once("q_vec_get_scalar", V1, index, Ret(heap, q_vec_get_scalar(heap, V1, index)))

CallToList ==
    /\ Len(heap) = 1
    /\ Once("q_to_list", V1, qv_null, q_to_list(heap, V1))

\* q_to_vector(q_to_list(v)): b records the intermediate list
CallRoundTrip ==
    /\ Len(heap) = 1
    /\ LET list == q_to_list(heap, V1)
       IN  Once("q_to_vector(q_to_list)", V1, list.ret, q_to_vector(list.heap, list.ret))

CallToVector ==
    /\ Len(heap) <= 1
    /\ \E x \in (IF Len(heap) = 1 THEN {V1, qv_list_init(<<V1>>)} ELSE AnyLists \cup Scalars) :
          Once("q_to_vector", x, qv_null, q_to_vector(heap, x))

CallClone ==
    /\ Len(heap) = 1
    /\ Once("q_vec_clone", V1, qv_null, q_vec_clone(heap, V1))

CallNewVector ==
    /\ Len(heap) = 0
    /\ Once("qv_vector", qv_null, qv_null, qv_vector(heap))

CallNewVectorI64 ==
    /\ Len(heap) = 0
    /\ Once("qv_vector_i64", qv_null, qv_null, qv_vector_i64(heap))

CallNewVectorBool ==
    /\ Len(heap) = 0
    /\ Once("qv_vector_bool", qv_null, qv_null, qv_vector_bool(heap))

CallNewVectorStr ==
    /\ Len(heap) = 0
    /\ Once("qv_vector_str", qv_null, qv_null, qv_vector_str(heap))

CallSum ==
    /\ Len(heap) = 1
    /\ Once("q_vec_sum", V1, qv_null, Ret(heap, q_vec_sum(heap, V1)))

CallMin ==
    /\ Len(heap) = 1
    /\ Once("q_vec_min", V1, qv_null, Ret(heap, q_vec_min(heap, V1)))

CallMax ==
    /\ Len(heap) = 1
    /\ Once("q_vec_max", V1, qv_null, Ret(heap, q_vec_max(heap, V1)))

CallAdd ==
    /\ Len(heap) <= 1
    /\ \E ab \in ScalarArgs : Once("q_add", ab[1], ab[2], q_add(heap, ab[1], ab[2]))

CallSub ==
    /\ Len(heap) <= 1
    /\ \E ab \in ScalarArgs : Once("q_sub", ab[1], ab[2], q_sub(heap, ab[1], ab[2]))

CallMul ==
    /\ Len(heap) <= 1
    /\ \E ab \in ScalarArgs : Once("q_mul", ab[1], ab[2], q_mul(heap, ab[1], ab[2]))

CallDiv ==
    /\ Len(heap) <= 1
    /\ \E ab \in ScalarArgs : Once("q_div", ab[1], ab[2], q_div(heap, ab[1], ab[2]))

CallMod ==
    /\ Len(heap) <= 1
    /\ \E ab \in ScalarArgs : Once("q_mod", ab[1], ab[2], Ret(heap, q_mod(ab[1], ab[2])))

\* powers of 2 and -2 around the ends of the long long range
BigPowArgs ==
    ({qv_int(2), qv_int(-2), qv_float(Fin(2, 1))} \X {qv_int(k) : k \in 61..65})
    \cup {<<qv_int(2), qv_float(Fin(63, 1))>>}

\* the power is 2^63, whose cast to long long is undefined
PowAtLLongEdge(a, b) ==
    /\ a.type = "INT" /\ b.type = "INT"
    /\ Pow(to_double(a), to_double(b)) = Pow2D(1, 63)

CallPow ==
    /\ last = NoCall
    /\ Len(heap) <= 1
    /\ \E ab \in ScalarArgs \cup (IF Len(heap) = 0 THEN BigPowArgs ELSE {}) :
          /\ BothNumeric(ab[1], ab[2]) => PowExact(to_double(ab[1]), to_double(ab[2]))
          /\ \E ub \in UBChoices(BothNumeric(ab[1], ab[2]) /\ PowAtLLongEdge(ab[1], ab[2])) :
                Once("q_pow", ab[1], ab[2], Ret(heap, q_pow(ab[1], ab[2], ub)))

CallNeg ==
    /\ Len(heap) <= 1
    /\ \E a \in (IF Len(heap) = 0 THEN ScalarValues ELSE {V1}) :
          Once("q_neg", a, qv_null, Ret(heap, q_neg(a)))

\* the comparison kernel of a name
CmpKernel(op, hp, a, b) ==
    CASE op = "q_vec_lt" -> q_vec_lt(hp, a, b)
      [] op = "q_vec_lte" -> q_vec_lte(hp, a, b)
      [] op = "q_vec_gt" -> q_vec_gt(hp, a, b)
      [] op = "q_vec_gte" -> q_vec_gte(hp, a, b)
      [] op = "q_vec_eq" -> q_vec_eq(hp, a, b)
      [] op = "q_vec_neq" -> q_vec_neq(hp, a, b)

SumOfName(op) ==
    CASE op = "q_vec_lt" -> "q_vec_sum(q_vec_lt)"
      [] op = "q_vec_lte" -> "q_vec_sum(q_vec_lte)"
      [] op = "q_vec_gt" -> "q_vec_sum(q_vec_gt)"
      [] op = "q_vec_gte" -> "q_vec_sum(q_vec_gte)"
      [] op = "q_vec_eq" -> "q_vec_sum(q_vec_eq)"
      [] op = "q_vec_neq" -> "q_vec_sum(q_vec_neq)"

\* q_vec_sum of the mask a comparison of a null-free vector with a scalar
\* gives: the mask, when one is produced, stays in the heap as vector 2
CallSumOfMask ==
    /\ last = NoCall
    /\ Len(heap) = 1
    /\ ~heap[1].has_nulls
    /\ \E op \in {"q_vec_lt", "q_vec_lte", "q_vec_gt", "q_vec_gte", "q_vec_eq", "q_vec_neq"} :
       \E ab \in ArgPairs \ {<<V1, V1>>} :
          LET mask == CmpKernel(op, heap, ab[1], ab[2])
          IN  Once(SumOfName(op), ab[1], ab[2],
                   Ret(mask.heap, q_vec_sum(mask.heap, mask.ret)))

\* a call made after the objects of heap pre were built: pre is the heap the
\* call starts from
OnceFrom(op, a, b, pre, r) ==
    /\ last = NoCall
    /\ heap' = r.heap
    /\ last' = [op |-> op, a |-> a, b |-> b, ret |-> r.ret, pre |-> pre]

\* ------------------------------------------------------------------------
\* Dicts held by handle and member access (types/dict.hpp, ops/member.hpp)
\* ------------------------------------------------------------------------
\* a QDict object: entries maps each key present to its value
QDict(entries) == [type |-> "DICT", entries |-> entries]

\* a QValue of kind VAL_DICT holding the handle h
DictVal(h) == [type |-> "DICT", h |-> h]

\* !dict.data.dict_val
q_dict_null(hp, dict) == "h" \notin DOMAIN dict \/ dict.h \notin DOMAIN hp

q_dict_get(hp, dict, key) ==
    IF dict.type # "DICT" THEN qv_null
    ELSE IF key.type # "STRING" THEN qv_null
    ELSE IF q_dict_null(hp, dict) THEN qv_null
    ELSE LET entries == hp[dict.h].entries
         IN  IF key.s \notin DOMAIN entries THEN qv_null ELSE entries[key.s]

\* entries[key] = value
Assign(entries, k, value) ==
    [kk \in DOMAIN entries \cup {k} |-> IF kk = k THEN value ELSE entries[kk]]

NoEntries == [kk \in {} |-> qv_null]

q_dict_set(hp, dict, key, value) ==
    IF dict.type # "DICT" THEN Ret(hp, qv_null)
    ELSE IF key.type # "STRING" THEN Ret(hp, qv_null)
    ELSE IF q_dict_null(hp, dict)
    THEN [ret |-> DictVal(Len(hp) + 1),
          heap |-> Append(hp, QDict(Assign(NoEntries, key.s, value)))]
    ELSE [ret |-> dict,
          heap |-> [hp EXCEPT ![dict.h].entries = Assign(@, key.s, value)]]

\* builtins/conversion.hpp: strlen, element count, or 0
q_len(hp, v) ==
    CASE v.type = "STRING" -> qv_int(Len(v.s))
      [] v.type = "LIST" ->
           qv_int(IF "items" \in DOMAIN v THEN Len(v.items)
                  ELSE IF q_list_missing(hp, v) THEN 0 ELSE Len(hp[v.h].items))
      [] v.type = "VECTOR" ->
           qv_int(IF q_vec_has_valid_handle(hp, v) /\ q_vec_validate(hp[v.h])
                  THEN hp[v.h].count ELSE 0)
      [] v.type = "DICT" ->
           qv_int(IF q_dict_null(hp, v) THEN 0 ELSE Cardinality(DOMAIN hp[v.h].entries))
      [] OTHER -> qv_int(0)

q_list_empty(hp, list) == q_list_missing(hp, list) \/ hp[list.h].items = <<>>

q_list_clear(hp, list) ==
    IF q_list_missing(hp, list) THEN Ret(hp, qv_null)
    ELSE [ret |-> list, heap |-> [hp EXCEPT ![list.h].items = <<>>]]

\* member names, as the characters strcmp compares
LengthName == <<"l", "e", "n", "g", "t", "h">>

SizeName == <<"s", "i", "z", "e">>

EmptyName == <<"e", "m", "p", "t", "y">>

ReverseName == <<"r", "e", "v", "e", "r", "s", "e">>

PopName == <<"p", "o", "p">>

ClearName == <<"c", "l", "e", "a", "r">>

StringMethods == {<<"u", "p", "p", "e", "r">>, <<"l", "o", "w", "e", "r">>, <<"t", "r", "i", "m">>}

\* q_member_get; the String members upper, lower and trim go to
\* builtins/strings.hpp, which is not among the operations modelled, and are
\* left out of the String case
q_member_get(hp, obj, member) ==
    CASE obj.type = "NULL" -> Ret(hp, qv_null)
      [] obj.type = "LIST" ->
           (CASE member \in {LengthName, SizeName} -> Ret(hp, q_len(hp, obj))
              [] member = EmptyName -> Ret(hp, qv_bool(q_list_empty(hp, obj)))
              [] member = ReverseName -> q_reverse(hp, obj)
              [] member = PopName -> q_pop(hp, obj)
              [] member = ClearName -> q_list_clear(hp, obj)
              [] OTHER -> Ret(hp, qv_null))
      [] obj.type = "STRING" /\ member \notin StringMethods ->
           IF member \in {LengthName, SizeName} THEN Ret(hp, q_len(hp, obj))
           ELSE Ret(hp, qv_null)
      [] obj.type = "DICT" ->
           IF member \in {LengthName, SizeName} THEN Ret(hp, q_len(hp, obj))
           ELSE Ret(hp, q_dict_get(hp, obj, qv_string(member)))
      [] obj.type \notin {"NULL", "LIST", "STRING", "DICT"} -> Ret(hp, qv_null)

q_member_set(hp, obj, member, value) ==
    IF obj.type = "DICT" THEN q_dict_set(hp, obj, qv_string(member), value)
    ELSE Ret(hp, qv_null)

\* the items of the lists the list calls start from
ListElems == {qv_null, qv_int(1), qv_string(<<"a">>)}

ListContents == SeqsUpTo(ListElems, MaxLen)

\* list indices: in range from either end, out of range, and not an Int
ListIndices == {qv_int(i) : i \in (-(MaxLen + 1))..(MaxLen + 1)} \cup {qv_null}

L1 == ListVal(1)

CallQPush ==
    /\ Len(heap) = 0
    /\ \E items \in ListContents, item \in ListElems :
          LET made == qv_list_from(heap, items)
          IN  OnceFrom("q_push", made.ret, item, made.heap, q_push(made.heap, made.ret, item))

CallQPop ==
    /\ Len(heap) = 0
    /\ \E items \in ListContents :
          LET made == qv_list_from(heap, items)
          IN  OnceFrom("q_pop", made.ret, qv_null, made.heap, q_pop(made.heap, made.ret))

CallQSet ==
    /\ Len(heap) = 0
    /\ \E items \in ListContents, index \in ListIndices, value \in ListElems :
          LET made == qv_list_from(heap, items)
          IN  OnceFrom("q_set", made.ret, [index |-> index, value |-> value], made.heap,
                       q_set(made.heap, made.ret, index, value))

CallQInsert ==
    /\ Len(heap) = 0
    /\ \E items \in ListContents, index \in ListIndices, item \in ListElems :
          LET made == qv_list_from(heap, items)
          IN  OnceFrom("q_insert", made.ret, [index |-> index, value |-> item], made.heap,
                       q_insert(made.heap, made.ret, index, item))

CallQRemove ==
    /\ Len(heap) = 0
    /\ \E items \in ListContents, index \in ListIndices :
          LET made == qv_list_from(heap, items)
          IN  OnceFrom("q_remove", made.ret, index, made.heap,
                       q_remove(made.heap, made.ret, index))

CallQReverse ==
    /\ Len(heap) = 0
    /\ \E items \in ListContents :
          LET made == qv_list_from(heap, items)
          IN  OnceFrom("q_reverse", made.ret, qv_null, made.heap, q_reverse(made.heap, made.ret))

\* q_get on a vector: with an Int index, and with the second vector as index
CallGet ==
    /\ last = NoCall
    /\ Len(heap) >= 1
    /\ \E index \in (IF Len(heap) = 1 THEN {qv_int(i) : i \in (-MaxLen)..(MaxLen - 1)} ELSE {V2}) :
          Once("q_get", V1, index, Ret(heap, q_get(heap, V1, index)))

\* q_get on a list
CallGetList ==
    /\ Len(heap) = 0
    /\ \E items \in ListContents, index \in ListIndices :
          LET made == qv_list_from(heap, items)
          IN  OnceFrom("q_get", made.ret, index, made.heap,
                       Ret(made.heap, q_get(made.heap, made.ret, index)))

\* the member names and values of the member calls
MemberNames == {LengthName, SizeName, <<"a">>, <<"b">>}

MemberValues == {qv_int(0), qv_int(1), qv_int(2), qv_null, qv_string(<<"a">>), qv_bool(TRUE)}

\* the contents of the dicts the member calls start from
DictContents ==
    UNION {[keys -> {qv_int(1), qv_null}] : keys \in SUBSET {<<"a">>, LengthName}}

D1 == DictVal(1)

\* q_member_set followed by q_member_get of the same member on a dict built
\* by qv_dict and q_dict_set: first is what q_member_set returned
CallMemberSetGet ==
    /\ last = NoCall
    /\ Len(heap) = 0
    /\ \E entries \in DictContents, m \in MemberNames, x \in MemberValues :
          LET pre == <<QDict(entries)>>
              set == q_member_set(pre, D1, m, x)
              get == q_member_get(set.heap, D1, m)
          IN  /\ heap' = get.heap
              /\ last' = [op |-> "q_member_set;q_member_get", a |-> D1,
                          b |-> [member |-> m, value |-> x],
                          ret |-> get.ret, pre |-> pre, first |-> set.ret]

\* q_member_get on a list, a dict, a string and values without members
CallMemberGet ==
    /\ last = NoCall
    /\ Len(heap) = 0
    /\ \E m \in MemberNames \cup {EmptyName, ReverseName, PopName, ClearName} :
          \/ \E items \in ListContents :
                LET made == qv_list_from(heap, items)
                IN  OnceFrom("q_member_get", made.ret, qv_string(m), made.heap,
                             q_member_get(made.heap, made.ret, m))
          \/ \E entries \in DictContents :
                OnceFrom("q_member_get", D1, qv_string(m), <<QDict(entries)>>,
                         q_member_get(<<QDict(entries)>>, D1, m))
          \/ \E obj \in {qv_null, qv_int(1), qv_string(<<"a">>), qv_func} :
                OnceFrom("q_member_get", obj, qv_string(m), heap, q_member_get(heap, obj, m))

\* q_member_set on a dict and on values that are not dicts
CallMemberSet ==
    /\ last = NoCall
    /\ Len(heap) = 0
    /\ \E m \in MemberNames, x \in MemberValues :
          \/ \E entries \in DictContents :
                OnceFrom("q_member_set", D1, [member |-> m, value |-> x], <<QDict(entries)>>,
                         q_member_set(<<QDict(entries)>>, D1, m, x))
          \/ \E obj \in {qv_null, qv_int(1), qv_dict} :
                OnceFrom("q_member_set", obj, [member |-> m, value |-> x], heap,
                         q_member_set(heap, obj, m, x))

NextOps ==
    \/ CallPush
    \/ CallPushI64
    \/ CallPushBool
    \/ CallSetNullAt
    \/ CallFillna
    \/ CallAstype
    \/ CallVecAdd
    \/ CallVecSub
    \/ CallVecMul
    \/ CallVecDiv
    \/ CallVecLt
    \/ CallVecLte
    \/ CallVecGt
    \/ CallVecGte
    \/ CallVecEq
    \/ CallVecNeq
    \/ CallMaskFilter
    \/ CallLt
    \/ CallLte
    \/ CallGt
    \/ CallGte
    \/ CallEq
    \/ CallNeq
    \/ CallGetScalar
    \/ CallToList
    \/ CallRoundTrip
    \/ CallToVector
    \/ CallClone
    \/ CallNewVector
    \/ CallNewVectorI64
    \/ CallNewVectorBool
    \/ CallNewVectorStr
    \/ CallSum
    \/ CallMin
    \/ CallMax
    \/ CallAdd
    \/ CallSub
    \/ CallMul
    \/ CallDiv
    \/ CallMod
    \/ CallPow
    \/ CallNeg
    \/ CallSumOfMask
    \/ CallQPush
    \/ CallQPop
    \/ CallQSet
    \/ CallQInsert
    \/ CallQRemove
    \/ CallQReverse
    \/ CallGet
    \/ CallGetList
    \/ CallFillnaAgain
    \/ CallMemberSetGet
    \/ CallMemberGet
    \/ CallMemberSet

SpecOps == InitOps /\ [][NextOps]_vars

\* ------------------------------------------------------------------------
\* Properties
\* ------------------------------------------------------------------------
\* the elements of a vector as values: the buffer, or the decoded strings
Elems(vec) ==
    IF vec.type = "STR" THEN q_vec_decode_strings(vec.storage, vec.count)
    ELSE vec.storage.vals

\* one flag per element, 1 where the element is null (q_vec_is_null_at)
NullFlags(vec) ==
    IF vec.has_nulls THEN [i \in 1..vec.count |-> IF vec.nulls[i] # 0 THEN 1 ELSE 0]
    ELSE [i \in 1..vec.count |-> 0]

\* element i (1-based, not null) as the QValue an element access hands out
ElemValue(vec, i) ==
    CASE vec.type = "F64" -> qv_float(Elems(vec)[i])
      [] vec.type = "I64" -> qv_int(Elems(vec)[i])
      [] vec.type = "BOOL" -> qv_bool(Elems(vec)[i] # 0)
      [] vec.type = "STR" -> qv_string(Elems(vec)[i])

\* the scalar types a push or a fill accepts for a dtype
Accepts(type, s) ==
    CASE type = "F64" -> s.type \in {"INT", "FLOAT"}
      [] type = "I64" -> s.type \in {"INT", "FLOAT", "BOOL"}
      [] type = "BOOL" -> s.type \in {"BOOL", "INT"}
      [] type = "STR" -> s.type = "STRING"

\* an accepted scalar (finite when a Float) converted to the dtype
Converted(type, s) ==
    CASE type = "F64" -> (IF s.type = "FLOAT" THEN s.f ELSE Fin(s.i, 1))
      [] type = "I64" -> (CASE s.type = "INT" -> s.i
                            [] s.type = "BOOL" -> (IF s.b THEN 1 ELSE 0)
                            [] s.type = "FLOAT" -> TruncDiv(s.f.n, s.f.d))
      [] type = "BOOL" -> (IF s.type = "BOOL" THEN (IF s.b THEN 1 ELSE 0)
                           ELSE (IF s.i # 0 THEN 1 ELSE 0))
      [] type = "STR" -> s.s

\* x is a vector operand of the recorded call, of dtype type
IsVecOf(x, type) == x.type = "VECTOR" /\ last.pre[x.h].type = type

\* element i (0-based) of operand x of the recorded call was null
OperandNullAt(x, i) == x.type = "VECTOR" /\ q_vec_is_null_at(last.pre[x.h], i)

ArithOps == {"q_vec_add", "q_vec_sub", "q_vec_mul", "q_vec_div"}

\* C1: after any finite sequence of public vector operations started from
\* freshly constructed vectors, every vector that exists satisfies
\* q_vec_validate: the storage case matches the dtype, the buffer length equals
\* count (Str: count+1 non-decreasing offsets from 0 to the byte length), and
\* the mask is empty without has_nulls and has count entries with it.
C1_AllValid == \A h \in DOMAIN heap : q_vec_validate(heap[h])

\* a masked Str vector of two elements beside a masked Bool vector (the
\* result of a comparison or a filter over nulls)
C1_Witness ==
    \E h1, h2 \in DOMAIN heap :
        /\ heap[h1].type = "STR" /\ heap[h1].count = 2 /\ heap[h1].has_nulls
        /\ heap[h2].type = "BOOL" /\ heap[h2].count >= 1 /\ heap[h2].has_nulls

\* C2: null propagation in q_vec_add, q_vec_sub, q_vec_mul and q_vec_div
\* (vector-vector of equal length, vector-scalar, scalar-vector): if element
\* i is null in either input vector, element i of the result vector is null.
C2_NullPropagation ==
    (last.op \in ArithOps /\ last.ret.type = "VECTOR") =>
        \A i \in 0..(heap[last.ret.h].count - 1) :
            (OperandNullAt(last.a, i) \/ OperandNullAt(last.b, i))
                => q_vec_is_null_at(heap[last.ret.h], i)

\* q_vec_add of the F64 vector [null] and Int 1 returned a vector whose
\* element 0 is not null
C2_Witness ==
    /\ last.op = "q_vec_add" /\ last.a = V1 /\ last.b = qv_int(1)
    /\ last.pre[1].type = "F64" /\ last.pre[1].count = 1 /\ last.pre[1].nulls = <<1>>
    /\ last.ret.type = "VECTOR"
    /\ ~q_vec_is_null_at(heap[last.ret.h], 0)

DispatchOps == {"q_lt", "q_lte", "q_gt", "q_gte", "q_eq", "q_neq"}

\* what operator op says of the doubles x and y
Holds(op, x, y) ==
    CASE op = "q_lt" -> FLt(x, y)
      [] op = "q_lte" -> FLe(x, y)
      [] op = "q_gt" -> FLt(y, x)
      [] op = "q_gte" -> FLe(y, x)
      [] op = "q_eq" -> FEq(x, y)
      [] op = "q_neq" -> ~FEq(x, y)

\* C3: q_lt, q_lte, q_gt, q_gte, q_eq and q_neq route to the vector engine
\* when an operand is a vector: for a null-free F64 vector v of length n and
\* a numeric scalar s the result is a Bool vector of length n whose element i
\* is true exactly when v[i] op s holds; it is never a scalar Bool.
C3_RoutesToVectorEngine ==
    (/\ last.op \in DispatchOps
     /\ IsVecOf(last.a, "F64") /\ ~last.pre[last.a.h].has_nulls
     /\ last.b.type \in {"INT", "FLOAT"})
    => /\ last.ret.type = "VECTOR"
       /\ last.ret.h \in DOMAIN heap
       /\ LET v == last.pre[last.a.h]
              r == heap[last.ret.h]
              s == Converted("F64", last.b)
          IN  /\ r.type = "BOOL"
              /\ r.count = v.count
              /\ \A i \in 1..v.count :
                    r.storage.vals[i] = U8(Holds(last.op, v.storage.vals[i], s))

\* q_gt of a null-free F64 vector of two elements and Int 1 returned a
\* scalar Bool
C3_Witness ==
    /\ last.op = "q_gt" /\ IsVecOf(last.a, "F64")
    /\ last.pre[1].count = 2 /\ ~last.pre[1].has_nulls
    /\ last.b = qv_int(1)
    /\ last.ret.type = "BOOL"

\* r has v's dtype, count, null positions and non-null values
SameContent(v, r) ==
    /\ r.type = v.type
    /\ r.count = v.count
    /\ NullFlags(r) = NullFlags(v)
    /\ \A i \in 1..v.count : NullFlags(v)[i] = 0 => Elems(r)[i] = Elems(v)[i]

HasNonNull(v) == \E i \in 1..v.count : NullFlags(v)[i] = 0

RoundTripped ==
    /\ last.op = "q_to_vector(q_to_list)"
    /\ last.pre[1].type \in {"F64", "I64", "STR"}

\* C4 as stated: for every valid vector v of dtype F64, I64 or Str, empty and
\* all-null vectors included, q_to_vector(q_to_list(v)) has v's dtype and
\* count, is null exactly where v is null and holds v's value at every
\* non-null index.
C4_RoundTripAll ==
    RoundTripped =>
        /\ last.ret.type = "VECTOR"
        /\ SameContent(last.pre[1], heap[last.ret.h])

\* C4, amended: the round trip reproduces dtype, count, null positions and
\* non-null values of every I64 vector and of every F64 or Str vector that has
\* a non-null element; of an empty or all-null F64 or Str vector it yields an
\* I64 vector of the same count with the same null positions.
C4_RoundTrip ==
    RoundTripped =>
        /\ last.ret.type = "VECTOR"
        /\ LET v == last.pre[1]
               r == heap[last.ret.h]
           IN  IF v.type = "I64" \/ HasNonNull(v)
               THEN SameContent(v, r)
               ELSE r.type = "I64" /\ r.count = v.count /\ NullFlags(r) = NullFlags(v)

\* a Str vector [null, "bc"] went through the round trip
C4_Witness ==
    /\ RoundTripped
    /\ last.pre[1].type = "STR" /\ last.pre[1].nulls = <<1, 0>>
    /\ Elems(last.pre[1])[2] = <<"b", "c">>
    /\ last.ret.type = "VECTOR"

\* x is an I64 vector operand and y a Float scalar or an F64 vector of the
\* same length
Mixed(x, y) ==
    /\ IsVecOf(x, "I64")
    /\ \/ y.type = "FLOAT"
       \/ IsVecOf(y, "F64") /\ last.pre[y.h].count = last.pre[x.h].count

\* C5: for an I64 vector v combined with a Float scalar (either operand
\* order) or with an F64 vector of the same length, q_vec_add, q_vec_sub,
\* q_vec_mul and q_vec_div return an F64 vector of v's length, not Null.
C5_MixedPromotion ==
    (last.op \in ArithOps /\ (Mixed(last.a, last.b) \/ Mixed(last.b, last.a)))
    => /\ last.ret.type = "VECTOR"
       /\ heap[last.ret.h].type = "F64"
       /\ heap[last.ret.h].count =
             last.pre[(IF IsVecOf(last.a, "I64") THEN last.a ELSE last.b).h].count

\* q_vec_add of the I64 vector [1] and Float 1.5 returned Null
C5_Witness ==
    /\ last.op = "q_vec_add" /\ IsVecOf(last.a, "I64")
    /\ last.pre[1].storage.vals = <<1>> /\ ~last.pre[1].has_nulls
    /\ last.b = qv_float(Fin(3, 2))
    /\ last.ret = qv_null

\* C6: for a data vector d and a Bool vector m of the same length,
\* q_vec_mask_filter(d, m) returns a new vector of d's dtype holding d's
\* elements at the positions where m is non-null and true, in increasing
\* order; its count is the number of such positions and its element j is null
\* iff the j-th selected element is null in d.  When the lengths differ or m
\* is not a Bool vector the result is Null.
C6_MaskFilter ==
    (last.op = "q_vec_mask_filter" /\ last.a.type = "VECTOR") =>
        LET d == last.pre[last.a.h]
            fits == /\ IsVecOf(last.b, "BOOL")
                    /\ last.pre[last.b.h].count = d.count
        IN  IF ~fits THEN last.ret = qv_null /\ heap = last.pre
            ELSE LET m == last.pre[last.b.h]
                     Chosen(i) == NullFlags(m)[i] = 0 /\ m.storage.vals[i] # 0
                     sel == SelectSeq([i \in 1..d.count |-> i], Chosen)
                 IN  /\ last.ret.type = "VECTOR"
                     /\ last.ret.h \notin DOMAIN last.pre
                     /\ \A h \in DOMAIN last.pre : heap[h] = last.pre[h]
                     /\ LET r == heap[last.ret.h]
                        IN  /\ r.type = d.type
                            /\ r.count = Len(sel)
                            /\ Elems(r) = [j \in 1..Len(sel) |-> Elems(d)[sel[j]]]
                            /\ NullFlags(r) = [j \in 1..Len(sel) |-> NullFlags(d)[sel[j]]]

\* a two-element data vector filtered by a mask with a null and a true
\* entry: one element selected, and it is null in d
C6_Witness ==
    /\ last.op = "q_vec_mask_filter" /\ last.a = V1 /\ last.b = V2
    /\ last.pre[1].count = 2 /\ last.pre[2].type = "BOOL"
    /\ last.pre[2].nulls = <<1, 0>> /\ last.pre[2].storage.vals = <<1, 1>>
    /\ last.ret.type = "VECTOR"
    /\ heap[last.ret.h].count = 1 /\ heap[last.ret.h].nulls = <<1>>

\* C7: for a vector v of length n and every 64-bit Int index i,
\* q_vec_get_scalar(v, i) returns element i when 0 <= i < n, element n+i when
\* -n <= i < 0, and Null for every other index, however large, and whenever
\* the addressed element is null.  (The index is hi * 2^32 + lo with lo a
\* signed 32-bit value, so it lies in [-n, n) exactly when hi = 0 and lo does.)
C7_GetScalar ==
    (last.op = "q_vec_get_scalar" /\ last.b.type = "INT") =>
        LET v == last.pre[1]
            n == v.count
            lo == last.b.i
            inRange == Hi(last.b) = 0 /\ -n <= lo /\ lo < n
            pos == IF lo < 0 THEN n + lo + 1 ELSE lo + 1
        IN  last.ret = IF inRange /\ NullFlags(v)[pos] = 0 THEN ElemValue(v, pos)
                       ELSE qv_null

\* index 2^32 into a one-element F64 vector returned element 0
C7_Witness ==
    /\ last.op = "q_vec_get_scalar"
    /\ last.b = qv_int_wide(1, 0)
    /\ last.pre[1].type = "F64" /\ last.pre[1].count = 1 /\ ~last.pre[1].has_nulls
    /\ last.ret = qv_float(last.pre[1].storage.vals[1])

\* C8: for a valid vector v that carries a null mask and a scalar s of a type
\* accepted for v's dtype, after q_fillna(v, s) the vector has has_nulls false
\* and an empty mask, every element that was null holds s converted to the
\* dtype, every other element keeps its value, and count is unchanged; when v
\* has no null mask q_fillna returns v with identical content.
C8_Fillna ==
    last.op = "q_fillna" =>
        LET v == last.pre[1]
            s == last.b
            post == heap[1]
        IN  IF ~v.has_nulls THEN last.ret = V1 /\ heap = last.pre
            ELSE Accepts(v.type, s) =>
                    /\ last.ret = V1
                    /\ ~post.has_nulls
                    /\ post.nulls = <<>>
                    /\ post.type = v.type
                    /\ post.count = v.count
                    /\ Elems(post) = [i \in 1..v.count |->
                          IF v.nulls[i] # 0 THEN Converted(v.type, s) ELSE Elems(v)[i]]

\* a Str vector [null, x] filled with "a"
C8_Witness ==
    /\ last.op = "q_fillna"
    /\ last.pre[1].type = "STR" /\ last.pre[1].nulls = <<1, 0>>
    /\ last.b = qv_string(<<"a">>)
    /\ last.ret = V1
    /\ Elems(heap[1])[1] = <<"a">>

\* the dtype a target name stands for
TargetOf(dtype) ==
    IF dtype.type # "STRING" THEN "NONE"
    ELSE CASE dtype.s = <<"f", "6", "4">> -> "F64"
           [] dtype.s = <<"i", "6", "4">> -> "I64"
           [] dtype.s = <<"b", "o", "o", "l">> -> "BOOL"
           [] OTHER -> "NONE"

\* C9: for a valid vector v of dtype F64, I64 or Bool and a target among
\* "f64", "i64", "bool", q_astype returns a vector of the target dtype with
\* v's count and with has_nulls and the null mask equal to v's; Bool to numeric
\* maps true to 1 and false to 0, numeric to Bool maps nonzero to true and
\* zero to false; a Str source or any other target yields Null.
C9_Astype ==
    last.op = "q_astype" =>
        LET v == last.pre[1]
            target == TargetOf(last.b)
        IN  IF v.type = "STR" \/ target = "NONE"
            THEN last.ret = qv_null /\ heap = last.pre
            ELSE /\ last.ret.type = "VECTOR"
                 /\ heap[1] = v
                 /\ LET r == heap[last.ret.h]
                        in == v.storage.vals
                        out == r.storage.vals
                    IN  /\ r.type = target
                        /\ r.count = v.count
                        /\ r.has_nulls = v.has_nulls
                        /\ r.nulls = v.nulls
                        /\ Len(out) = v.count
                        /\ (v.type = "BOOL" /\ target = "I64") =>
                              \A i \in 1..v.count : out[i] = IF in[i] # 0 THEN 1 ELSE 0
                        /\ (v.type = "BOOL" /\ target = "F64") =>
                              \A i \in 1..v.count :
                                  out[i] = IF in[i] # 0 THEN Fin(1, 1) ELSE Fin(0, 1)
                        /\ (v.type = "I64" /\ target = "BOOL") =>
                              \A i \in 1..v.count : out[i] = IF in[i] # 0 THEN 1 ELSE 0
                        /\ (v.type = "F64" /\ target = "BOOL") =>
                              \A i \in 1..v.count : out[i] = IF in[i] # Fin(0, 1) THEN 1 ELSE 0

\* a masked Bool vector of two elements cast to i64
C9_Witness ==
    /\ last.op = "q_astype" /\ last.b = qv_string(<<"i", "6", "4">>)
    /\ last.pre[1].type = "BOOL" /\ last.pre[1].count = 2 /\ last.pre[1].nulls = <<0, 1>>
    /\ last.ret.type = "VECTOR"
    /\ heap[last.ret.h].type = "I64"

PushOps == {"q_vec_push", "q_vec_push_i64", "q_vec_push_bool"}

\* the dtype a push function appends to
PushType(op) ==
    CASE op = "q_vec_push" -> "F64"
      [] op = "q_vec_push_i64" -> "I64"
      [] op = "q_vec_push_bool" -> "BOOL"

\* C10: q_vec_push on an F64 vector accepts only Int or Float, q_vec_push_i64
\* on an I64 vector only Int, Float or Bool, q_vec_push_bool on a Bool vector
\* only Bool or Int; an accepted push increases count by 1, places the
\* converted value at the last index and, when the vector carries a null
\* mask, appends a not-null entry so that the mask length stays equal to
\* count; a rejected push returns Null and leaves the vector unchanged.
C10_Push ==
    last.op \in PushOps =>
        LET v == last.pre[1]
            s == last.b
            post == heap[1]
        IN  IF v.type = PushType(last.op) /\ Accepts(v.type, s)
            THEN /\ last.ret = V1
                 /\ post.type = v.type
                 /\ post.count = v.count + 1
                 /\ post.storage.vals = Append(v.storage.vals, Converted(v.type, s))
                 /\ post.has_nulls = v.has_nulls
                 /\ post.nulls = IF v.has_nulls THEN Append(v.nulls, 0) ELSE <<>>
                 /\ v.has_nulls => Len(post.nulls) = post.count
            ELSE last.ret = qv_null /\ heap = last.pre

\* Float 1.5 pushed onto a masked I64 vector
C10_Witness ==
    /\ last.op = "q_vec_push_i64" /\ last.b = qv_float(Fin(3, 2))
    /\ last.pre[1].type = "I64" /\ last.pre[1].nulls = <<1>>
    /\ last.ret = V1
    /\ heap[1].storage.vals[2] = 1

NewOps == {"qv_vector", "qv_vector_i64", "qv_vector_bool", "qv_vector_str"}

\* the indices probed for nullness: inside and beyond any explored count
Probes == 0..(MaxLen + 1)

\* C11: a newly constructed vector has no null mask, and q_vec_is_null_at is
\* false for every index as long as no mask exists; the first
\* q_vec_set_null_at(v, i, true) with i < count allocates a mask of count
\* all-valid entries and marks entry i, so that exactly element i is null;
\* q_vec_set_null_at with i >= count returns false and changes nothing.
C11_LazyMask ==
    /\ last.op \in NewOps =>
          /\ last.ret.type = "VECTOR"
          /\ ~heap[last.ret.h].has_nulls
          /\ heap[last.ret.h].nulls = <<>>
    /\ \A h \in DOMAIN heap :
          (heap[h].type \notin {"LIST", "DICT"} /\ ~heap[h].has_nulls)
              => \A i \in Probes : ~q_vec_is_null_at(heap[h], i)
    /\ last.op = "q_vec_set_null_at" =>
          LET v == last.pre[1]
              i == last.b.index
          IN  IF i >= v.count
              THEN last.ret = CBool(FALSE) /\ heap = last.pre
              ELSE /\ last.ret = CBool(TRUE)
                   /\ heap[1].count = v.count
                   /\ heap[1].storage = v.storage
                   /\ (~v.has_nulls /\ last.b.is_null) =>
                         /\ heap[1].has_nulls
                         /\ Len(heap[1].nulls) = v.count
                         /\ \A j \in Probes : q_vec_is_null_at(heap[1], j) <=> j = i

\* the first mark on a two-element vector without a mask, at index 1
C11_Witness ==
    /\ last.op = "q_vec_set_null_at"
    /\ ~last.pre[1].has_nulls /\ last.pre[1].count = 2
    /\ last.b = [index |-> 1, is_null |-> TRUE]
    /\ heap[1].nulls = <<0, 1>>

CmpOps == {"q_vec_lt", "q_vec_lte", "q_vec_gt", "q_vec_gte", "q_vec_eq", "q_vec_neq"}

\* both operands of the recorded call are vectors
BothVectors == last.a.type = "VECTOR" /\ last.b.type = "VECTOR"

\* C12: for two vector operands whose counts differ, every binary kernel
\* (q_vec_add/sub/mul/div, q_vec_lt/lte/gt/gte/eq/neq) returns Null, for
\* every combination of operand dtypes.
C12_LengthMismatch ==
    (/\ last.op \in ArithOps \cup CmpOps
     /\ BothVectors
     /\ last.pre[last.a.h].count # last.pre[last.b.h].count)
    => last.ret = qv_null

\* q_vec_eq of two Str vectors of one and two elements
C12_Witness ==
    /\ last.op = "q_vec_eq" /\ last.a = V1 /\ last.b = V2
    /\ last.pre[1].type = "STR" /\ last.pre[1].count = 1
    /\ last.pre[2].type = "STR" /\ last.pre[2].count = 2
    /\ last.ret = qv_null

\* the operations that only read their vector operands
ReadingOps ==
    ArithOps \cup CmpOps
    \cup {"q_astype", "q_vec_mask_filter", "q_to_list", "q_vec_sum", "q_vec_min", "q_vec_max"}

\* C13: q_vec_add/sub/mul/div, q_vec_lt/lte/gt/gte/eq/neq, q_astype,
\* q_vec_mask_filter, q_to_list and q_vec_sum/min/max leave every operand
\* vector's dtype, count, elements, has_nulls and mask as they were, whether
\* the call succeeds or returns Null, and a vector they return is a newly
\* allocated object (its handle names no object that existed before the
\* call), so a later push, mark or fill on the result changes no operand.
C13_OperandsUntouched ==
    last.op \in ReadingOps =>
        /\ \A h \in DOMAIN last.pre : h \in DOMAIN heap /\ heap[h] = last.pre[h]
        /\ last.ret.type = "VECTOR" =>
              /\ last.ret.h \in DOMAIN heap
              /\ last.ret.h \notin DOMAIN last.pre

\* q_astype of an F64 vector to "f64": the result is a second object with
\* the operand's content
C13_Witness ==
    /\ last.op = "q_astype" /\ last.b = qv_string(<<"f", "6", "4">>)
    /\ last.pre[1].type = "F64" /\ last.pre[1].count = 2 /\ last.pre[1].has_nulls
    /\ last.ret = V2
    /\ heap[2] = heap[1]

\* the kinds of the non-Null items of a list
KindsOf(items) == {items[i].type : i \in {j \in 1..Len(items) : items[j].type # "NULL"}}

\* C14: q_to_vector on a List gives I64 when every non-Null element is an Int
\* or there is no non-Null element, F64 when every non-Null element is a
\* Float, Str when every non-Null element is a String, and Null when Int,
\* Float and String elements are mixed or any element is a Bool, List, Dict,
\* Func, Result or Vector; on success the count is the list's length and
\* element i is null exactly when item i is Null.
C14_ToVectorDtype ==
    (last.op = "q_to_vector" /\ last.a.type = "LIST") =>
        LET items == last.a.items
            kinds == KindsOf(items)
            dtype == CASE kinds \subseteq {"INT"} -> "I64"
                       [] kinds = {"FLOAT"} -> "F64"
                       [] kinds = {"STRING"} -> "STR"
                       [] OTHER -> "NONE"
        IN  IF dtype = "NONE" THEN last.ret = qv_null /\ heap = last.pre
            ELSE /\ last.ret.type = "VECTOR"
                 /\ last.ret.h \in DOMAIN heap
                 /\ heap[last.ret.h].type = dtype
                 /\ heap[last.ret.h].count = Len(items)
                 /\ \A i \in 1..Len(items) :
                       q_vec_is_null_at(heap[last.ret.h], i - 1) <=> items[i].type = "NULL"

\* a list of a Null and a String becomes a Str vector of two elements whose
\* first element is null
C14_Witness ==
    /\ last.op = "q_to_vector"
    /\ last.a = qv_list_init(<<qv_null, qv_string(<<"a">>)>>)
    /\ last.ret = V1
    /\ heap[1].type = "STR" /\ heap[1].count = 2 /\ heap[1].nulls = <<1, 0>>

\* a list holding a Bool is refused
C14_WitnessRefused ==
    /\ last.op = "q_to_vector"
    /\ last.a = qv_list_init(<<qv_int(1), qv_bool(TRUE)>>)
    /\ last.ret = qv_null

\* the recorded call is a binary scalar operator on two Int/Float operands
NumericCall(ops) == last.op \in ops /\ BothNumeric(last.a, last.b)

\* C15: for Int/Float operands, q_add, q_sub and q_mul return an Int when
\* both operands are Int and a Float when either operand is a Float; q_div
\* returns a Float for every pair of numeric operands with a nonzero divisor,
\* Int/Int included (add(2,3) = Int 5, add(2,3.0) = Float 5.0,
\* div(6,3) = Float 2.0).
C15_NumericPromotion ==
    /\ NumericCall({"q_add", "q_sub", "q_mul"}) =>
          last.ret.type = (IF last.a.type = "INT" /\ last.b.type = "INT" THEN "INT" ELSE "FLOAT")
    /\ (NumericCall({"q_div"}) /\ ~FEq(to_double(last.b), FZero)) => last.ret.type = "FLOAT"
    /\ (last.op = "q_add" /\ last.a = qv_int(2) /\ last.b = qv_int(3)) => last.ret = qv_int(5)
    /\ (last.op = "q_add" /\ last.a = qv_int(2) /\ last.b = qv_float(Fin(3, 1))) =>
          last.ret = qv_float(Fin(5, 1))
    /\ (last.op = "q_div" /\ last.a = qv_int(6) /\ last.b = qv_int(3)) =>
          last.ret = qv_float(Fin(2, 1))

\* div(6, 3) has given Float 2.0
C15_Witness ==
    /\ last.op = "q_div" /\ last.a = qv_int(6) /\ last.b = qv_int(3)
    /\ last.ret = qv_float(Fin(2, 1))

C16_WitnessFloat ==
    /\ last.op = "q_mod" /\ last.a = qv_int(6) /\ last.b = qv_float(Fin(3, 2))
    /\ last.ret = qv_null

ScalarArithOps == {"q_add", "q_sub", "q_mul", "q_div", "q_mod", "q_pow", "q_neg"}

\* the recorded call has no vector operand
NoVectorOperand == last.a.type # "VECTOR" /\ last.b.type # "VECTOR"

\* C17: with non-vector operands, q_add, q_sub, q_mul, q_div, q_mod, q_pow
\* and q_neg return Null whenever an operand is of a type other than Int or
\* Float (Null, Bool, String, List, Dict, Func, Result), except that
\* q_add(String, String) returns the concatenation of the two strings; a Null
\* operand always yields Null.
C17_TypeGuard ==
    (last.op \in ScalarArithOps /\ NoVectorOperand) =>
        LET unary == last.op = "q_neg"
            guarded == \/ last.a.type \notin {"INT", "FLOAT"}
                       \/ ~unary /\ last.b.type \notin {"INT", "FLOAT"}
            concat == last.op = "q_add" /\ last.a.type = "STRING" /\ last.b.type = "STRING"
        IN  /\ concat => last.ret = qv_string(last.a.s \o last.b.s)
            /\ (guarded /\ ~concat) => last.ret = qv_null
            /\ (last.a = qv_null \/ (~unary /\ last.b = qv_null)) => last.ret = qv_null

\* q_add of "a" and "b" has given "ab"
C17_Witness ==
    /\ last.op = "q_add" /\ last.a = qv_string(<<"a">>) /\ last.b = qv_string(<<"b">>)
    /\ last.ret = qv_string(<<"a", "b">>)

\* q_neg of a Bool has given Null
C17_WitnessNeg ==
    /\ last.op = "q_neg" /\ last.a = qv_bool(TRUE)
    /\ last.ret = qv_null

\* C18: q_div(a, b) with numeric a and b equal to Int 0 or Float 0.0 returns
\* Null, and q_mod(a, b) with Int a and b equal to Int 0 returns Null.
C18_ZeroDivisor ==
    /\ (NumericCall({"q_div"}) /\ last.b \in {qv_int(0), qv_float(FZero)}) => last.ret = qv_null
    /\ (last.op = "q_mod" /\ last.a.type = "INT" /\ last.b = qv_int(0)) => last.ret = qv_null

\* 1.5 divided by Int 0 has given Null
C18_Witness ==
    /\ last.op = "q_div" /\ last.a = qv_float(Fin(3, 2)) /\ last.b = qv_int(0)
    /\ last.ret = qv_null

\* 6 mod 0 has given Null
C18_WitnessMod ==
    /\ last.op = "q_mod" /\ last.a = qv_int(6) /\ last.b = qv_int(0)
    /\ last.ret = qv_null

\* the exact value of an Int or of a finite Float: hi * 2^32 + n / d
ExactValue(v) ==
    IF v.type = "INT" THEN <<Hi(v), v.i, 1>> ELSE <<Hi(v.f), v.f.n, v.f.d>>

\* two numeric values stand for the same number
NumericallyEqual(a, b) ==
    /\ a.type = "FLOAT" => a.f.c = "fin"
    /\ b.type = "FLOAT" => b.f.c = "fin"
    /\ ExactValue(a) = ExactValue(b)

\* Float f is the double nearest to Int v (a tie goes to the multiple of 4):
\* v itself up to 2^53, and between 2^53 and 2^54 the even number at distance
\* at most 1
NearestDouble(v, f) ==
    /\ f.c = "fin" /\ f.d = 1 /\ Hi(f) = Hi(v)
    /\ \/ f.n = v.i
       \/ Hi(v) = 2097152 /\ v.i % 2 = 1 /\ Abs(f.n - v.i) = 1 /\ f.n % 4 = 0

\* what equality of same-variant values and of non-numeric values gives
SameVariantEqual(a, b) ==
    CASE a.type = "BOOL" /\ b.type = "BOOL" -> a.b = b.b
      [] a.type = "STRING" /\ b.type = "STRING" -> a.s = b.s
      [] a.type = "NULL" /\ b.type = "NULL" -> TRUE
      [] OTHER -> FALSE

\* the Bool the recorded q_eq or q_neq must return when equality is expected
EqReturns(expected) ==
    last.ret = qv_bool(IF last.op = "q_eq" THEN expected ELSE ~expected)

\* C19 as stated: q_eq(a, b) is true when a and b are both numeric (Int or
\* Float, in any mix) and numerically equal, when both are Bool with the same
\* bit, when both are String with the same content, and when both are Null; it
\* is false for every other pair of different variants and for every pair of
\* List, Dict, Func or Result values; q_neq(a, b) is its negation.
C19_EqualityNumeric ==
    (last.op \in {"q_eq", "q_neq"} /\ NoVectorOperand) =>
        IF BothNumeric(last.a, last.b)
        THEN EqReturns(NumericallyEqual(last.a, last.b))
        ELSE EqReturns(SameVariantEqual(last.a, last.b))

\* C19, amended: an Int and a Float are compared after the Int is converted
\* to the nearest double, so they are equal exactly when the Float is that
\* double (for an Int beyond 2^53 this can be a different number); two Ints
\* and two Floats are equal when they are the same number; the rest is as
\* stated.
C19_EqualityPromoted ==
    (last.op \in {"q_eq", "q_neq"} /\ NoVectorOperand) =>
        IF BothNumeric(last.a, last.b)
        THEN IF last.a.type = last.b.type
             THEN EqReturns(NumericallyEqual(last.a, last.b))
             ELSE IF last.a.type = "INT"
                  THEN EqReturns(NearestDouble(last.a, last.b.f))
                  ELSE EqReturns(NearestDouble(last.b, last.a.f))
        ELSE EqReturns(SameVariantEqual(last.a, last.b))

\* Int 2^53 + 1 has compared equal to Float 2^53
C19_Witness ==
    /\ last.op = "q_eq"
    /\ last.a = qv_int_wide(2097152, 1) /\ last.b = qv_float(FinWide(2097152, 0))
    /\ last.ret = qv_bool(TRUE)

\* Bool true against Int 1 is unequal
C19_WitnessVariants ==
    /\ last.op = "q_eq" /\ last.a = qv_bool(TRUE) /\ last.b = qv_int(1)
    /\ last.ret = qv_bool(FALSE)

\* x is an I64 vector operand and y an I64 vector of the same length or an
\* Int or Bool scalar
Integral(x, y) ==
    /\ IsVecOf(x, "I64")
    /\ \/ y.type \in {"INT", "BOOL"}
       \/ IsVecOf(y, "I64") /\ last.pre[y.h].count = last.pre[x.h].count

\* the integer operand x contributes at element i (1-based)
IntegerAt(x, i) ==
    CASE x.type = "VECTOR" -> last.pre[x.h].storage.vals[i]
      [] x.type = "INT" -> x.i
      [] x.type = "BOOL" -> IF x.b THEN 1 ELSE 0

\* C20: when one operand is an I64 vector and the other is an I64 vector of
\* the same length or an Int or Bool scalar (either order), q_vec_add,
\* q_vec_sub and q_vec_mul return an I64 vector of that length holding the
\* elementwise integer result, and q_vec_div returns an F64 vector of that
\* length.
C20_IntegerPath ==
    (last.op \in ArithOps /\ (Integral(last.a, last.b) \/ Integral(last.b, last.a))) =>
        LET n == last.pre[(IF IsVecOf(last.a, "I64") THEN last.a ELSE last.b).h].count
            x(i) == IntegerAt(last.a, i)
            y(i) == IntegerAt(last.b, i)
        IN  /\ last.ret.type = "VECTOR"
            /\ last.ret.h \in DOMAIN heap
            /\ heap[last.ret.h].count = n
            /\ IF last.op = "q_vec_div"
               THEN heap[last.ret.h].type = "F64"
               ELSE /\ heap[last.ret.h].type = "I64"
                    /\ \A i \in 1..n :
                          heap[last.ret.h].storage.vals[i] =
                             CASE last.op = "q_vec_add" -> x(i) + y(i)
                               [] last.op = "q_vec_sub" -> x(i) - y(i)
                               [] last.op = "q_vec_mul" -> x(i) * y(i)

\* Bool true minus the I64 vector [0, 1] has given the I64 vector [1, 0]
C20_Witness ==
    /\ last.op = "q_vec_sub" /\ last.a = qv_bool(TRUE) /\ last.b = V1
    /\ last.pre[1].type = "I64" /\ last.pre[1].storage.vals = <<0, 1>>
    /\ last.ret = V2
    /\ heap[2].type = "I64" /\ heap[2].storage.vals = <<1, 0>>

\* the quotient of two I64 vectors is an F64 vector
C20_WitnessDiv ==
    /\ last.op = "q_vec_div" /\ last.a = V1 /\ last.b = V2
    /\ last.pre[1].type = "I64" /\ last.pre[2].type = "I64" /\ last.pre[1].count = 2
    /\ last.ret.type = "VECTOR"
    /\ heap[last.ret.h].type = "F64" /\ heap[last.ret.h].count = 2

\* the sum of a sequence of doubles, from its last element
RECURSIVE Total(_)
Total(xs) == IF xs = <<>> THEN Fin(0, 1) ELSE FAdd(Total(SubSeq(xs, 1, Len(xs) - 1)), xs[Len(xs)])

\* the number a stored element of a vector stands for in a sum
Summand(vec, i) ==
    CASE vec.type = "BOOL" -> IF vec.storage.vals[i] # 0 THEN Fin(1, 1) ELSE Fin(0, 1)
      [] vec.type = "I64" -> Fin(vec.storage.vals[i], 1)
      [] vec.type = "F64" -> vec.storage.vals[i]

\* the number a scalar or a stored element stands for in a comparison
NumberOf(x) ==
    CASE x.type = "INT" -> Fin(x.i, 1)
      [] x.type = "FLOAT" -> x.f
      [] x.type = "BOOL" -> IF x.b THEN Fin(1, 1) ELSE Fin(0, 1)

\* x and y are values one comparison relates: two numbers, two Bools or two
\* Strings
Comparable(x, y) ==
    \/ x.type \in {"INT", "FLOAT"} /\ y.type \in {"INT", "FLOAT"}
    \/ x.type = "BOOL" /\ y.type = "BOOL"
    \/ x.type = "STRING" /\ y.type = "STRING"

\* the comparison named rel holds between x and y
Satisfies(rel, x, y) ==
    IF x.type = "STRING"
    THEN (rel = "eq" /\ x.s = y.s) \/ (rel = "neq" /\ x.s # y.s)
    ELSE LET u == NumberOf(x)
             w == NumberOf(y)
             less == u.n * w.d < w.n * u.d
             same == u.n * w.d = w.n * u.d
         IN  CASE rel = "lt" -> less
               [] rel = "lte" -> less \/ same
               [] rel = "gt" -> ~less /\ ~same
               [] rel = "gte" -> ~less
               [] rel = "eq" -> same
               [] rel = "neq" -> ~same

SumOfMaskOps ==
    {"q_vec_sum(q_vec_lt)", "q_vec_sum(q_vec_lte)", "q_vec_sum(q_vec_gt)",
     "q_vec_sum(q_vec_gte)", "q_vec_sum(q_vec_eq)", "q_vec_sum(q_vec_neq)"}

\* the relation a comparison kernel, or the sum of its mask, is named after
RelOf(op) ==
    CASE op \in {"q_vec_lt", "q_vec_sum(q_vec_lt)"} -> "lt"
      [] op \in {"q_vec_lte", "q_vec_sum(q_vec_lte)"} -> "lte"
      [] op \in {"q_vec_gt", "q_vec_sum(q_vec_gt)"} -> "gt"
      [] op \in {"q_vec_gte", "q_vec_sum(q_vec_gte)"} -> "gte"
      [] op \in {"q_vec_eq", "q_vec_sum(q_vec_eq)"} -> "eq"
      [] op \in {"q_vec_neq", "q_vec_sum(q_vec_neq)"} -> "neq"

\* operand x of the recorded call at element i (1-based): the element of a
\* vector, or the scalar itself
OperandAt(x, i) == IF x.type = "VECTOR" THEN ElemValue(last.pre[x.h], i) ELSE x

\* C21: q_vec_sum over a Bool vector returns the number of elements stored
\* as true, and over an F64 or I64 vector the sum of all stored elements;
\* elements marked null in the mask are not left out (their stored payload is
\* added); for the mask produced by comparing a null-free vector against a
\* scalar, the sum equals the number of elements satisfying the comparison.
C21_Sum ==
    /\ (last.op = "q_vec_sum" /\ last.pre[1].type \in {"BOOL", "I64", "F64"}) =>
          LET v == last.pre[1]
          IN  last.ret = qv_float(Total([i \in 1..v.count |-> Summand(v, i)]))
    /\ (last.op \in SumOfMaskOps /\ Len(heap) = 2) =>
          LET n == last.pre[1].count
              hits == {i \in 1..n : Satisfies(RelOf(last.op), OperandAt(last.a, i),
                                              OperandAt(last.b, i))}
          IN  (n > 0 => Comparable(OperandAt(last.a, 1), OperandAt(last.b, 1)))
                 => last.ret = qv_float(Fin(Cardinality(hits), 1))

\* the sum of an I64 vector [1, 1] whose second element is marked null is 2
C21_Witness ==
    /\ last.op = "q_vec_sum"
    /\ last.pre[1].type = "I64" /\ last.pre[1].storage.vals = <<1, 1>>
    /\ last.pre[1].nulls = <<0, 1>>
    /\ last.ret = qv_float(Fin(2, 1))

\* the sum of the mask of [0, 1] >= 1 is 1
C21_WitnessMask ==
    /\ last.op = "q_vec_sum(q_vec_gte)" /\ last.a = V1 /\ last.b = qv_int(1)
    /\ last.pre[1].type = "I64" /\ last.pre[1].storage.vals = <<0, 1>>
    /\ Len(heap) = 2
    /\ last.ret = qv_float(Fin(1, 1))

\* x <= y on finite doubles
AtMost(x, y) == x.n * y.d <= y.n * x.d

\* C22: q_vec_min and q_vec_max return Null on an empty vector, and on every
\* non-empty F64, I64 or Bool vector return a non-Null value equal to the
\* smallest (respectively largest) stored element, nulled elements included.
C22_MinMax ==
    (last.op \in {"q_vec_min", "q_vec_max"} /\ last.pre[1].type \in {"F64", "I64", "BOOL"}) =>
        LET v == last.pre[1]
        IN  IF v.count = 0 THEN last.ret = qv_null
            ELSE /\ last.ret.type \in {"INT", "FLOAT", "BOOL"}
                 /\ \E i \in 1..v.count : NumberOf(last.ret) = Summand(v, i)
                 /\ \A i \in 1..v.count :
                       IF last.op = "q_vec_min"
                       THEN AtMost(NumberOf(last.ret), Summand(v, i))
                       ELSE AtMost(Summand(v, i), NumberOf(last.ret))

\* q_vec_max over the Bool vector [false, true] has returned Null
C22_Witness ==
    /\ last.op = "q_vec_max"
    /\ last.pre[1].type = "BOOL" /\ last.pre[1].storage.vals = <<0, 1>>
    /\ ~last.pre[1].has_nulls
    /\ last.ret = qv_null

\* the same statement for F64 and I64 vectors only
C22_MinMaxNumeric ==
    (last.op \in {"q_vec_min", "q_vec_max"} /\ last.pre[1].type \in {"F64", "I64"}) =>
        LET v == last.pre[1]
        IN  IF v.count = 0 THEN last.ret = qv_null
            ELSE /\ last.ret.type = "FLOAT"
                 /\ \E i \in 1..v.count : NumberOf(last.ret) = Summand(v, i)
                 /\ \A i \in 1..v.count :
                       IF last.op = "q_vec_min"
                       THEN AtMost(NumberOf(last.ret), Summand(v, i))
                       ELSE AtMost(Summand(v, i), NumberOf(last.ret))

VectorMutators == {"q_vec_push", "q_vec_push_i64", "q_vec_push_bool", "q_fillna"}

ListMutators == {"q_push", "q_pop", "q_set", "q_insert", "q_remove", "q_reverse"}

\* the object the handle of operand a names, before and after the call: what
\* any copy of that handle observes
SeenBefore == last.pre[last.a.h]

SeenAfter == heap[last.a.h]

\* C23: copying a QValue of kind Vector or List copies only the handle, so
\* after q_vec_push, q_vec_set_null_at or q_fillna through one copy of a
\* vector handle (or q_push, q_pop, q_set, q_insert, q_remove, q_reverse
\* through one copy of a list handle) every other copy of that handle
\* observes the new count, element values and null mask: the call changes
\* the object the handle names and creates no second object.
C23_SharedHandles ==
    /\ (last.op \in VectorMutators /\ last.ret # qv_null) =>
          /\ last.ret = last.a
          /\ Len(heap) = Len(last.pre)
          /\ last.op # "q_fillna" =>
                /\ SeenAfter.count = SeenBefore.count + 1
                /\ \A i \in 1..SeenBefore.count :
                      /\ Elems(SeenAfter)[i] = Elems(SeenBefore)[i]
                      /\ NullFlags(SeenAfter)[i] = NullFlags(SeenBefore)[i]
          /\ (last.op = "q_fillna" /\ SeenBefore.has_nulls) =>
                /\ SeenAfter.count = SeenBefore.count
                /\ \A i \in 0..(SeenAfter.count - 1) : ~q_vec_is_null_at(SeenAfter, i)
    /\ (last.op = "q_vec_set_null_at" /\ last.ret = CBool(TRUE)) =>
          /\ Len(heap) = Len(last.pre)
          /\ SeenAfter.count = SeenBefore.count
          /\ q_vec_is_null_at(SeenAfter, last.b.index) = last.b.is_null
    /\ (last.op \in ListMutators /\ last.a.type = "LIST") =>
          LET old == SeenBefore.items
              new == SeenAfter.items
              n == Len(old)
          IN  /\ Len(heap) = Len(last.pre)
              /\ last.op = "q_push" => last.ret = last.a /\ new = Append(old, last.b)
              /\ last.op = "q_pop" =>
                    IF n = 0 THEN last.ret = qv_null /\ new = old
                    ELSE last.ret = old[n] /\ new = SubSeq(old, 1, n - 1)
              /\ (last.op = "q_set" /\ last.ret # qv_null) =>
                    /\ Len(new) = n
                    /\ \E k \in 1..n :
                          /\ new[k] = last.b.value
                          /\ \A j \in (1..n) \ {k} : new[j] = old[j]
              /\ (last.op = "q_insert" /\ last.ret # qv_null) =>
                    /\ last.ret = last.a
                    /\ \E k \in 1..(n + 1) : new[k] = last.b.value /\ Erase(new, k) = old
              /\ (last.op = "q_remove" /\ last.ret # qv_null) =>
                    \E k \in 1..n : last.ret = old[k] /\ new = Erase(old, k)
              /\ last.op = "q_reverse" =>
                    /\ last.ret = last.a
                    /\ Len(new) = n
                    /\ \A i \in 1..n : new[i] = old[n + 1 - i]

\* after q_vec_push of Int 1 through one copy of the handle of the F64
\* vector [1.5], the handle names a vector of two elements
C23_Witness ==
    /\ last.op = "q_vec_push" /\ last.a = V1 /\ last.b = qv_int(1)
    /\ last.pre[1].type = "F64" /\ last.pre[1].storage.vals = <<Fin(3, 2)>>
    /\ last.ret = V1
    /\ heap[1].count = 2 /\ heap[1].storage.vals = <<Fin(3, 2), Fin(1, 1)>>

\* after q_remove at index -1 through one copy of the handle of the list
\* [1, "a"], the handle names the list [1]
C23_WitnessList ==
    /\ last.op = "q_remove" /\ last.a = L1 /\ last.b = qv_int(-1)
    /\ last.pre[1].items = <<qv_int(1), qv_string(<<"a">>)>>
    /\ last.ret = qv_string(<<"a">>)
    /\ heap[1].items = <<qv_int(1)>>

\* C24: with an Int index q_get(v, i) performs scalar indexing on the vector
\* (q_get(v, 0) is the first element and q_get(v, -1) the last), and with a
\* Bool vector index q_get(v, m) performs mask filtering, returning a vector
\* whose length is the number of true entries of m (0 when the mask is all
\* false).
C24_GetOnVector ==
    (last.op = "q_get" /\ last.a.type = "VECTOR") =>
        LET v == last.pre[last.a.h]
            n == v.count
        IN  /\ (last.b.type = "INT" /\ last.b.i >= -n /\ last.b.i < n) =>
                  LET k == IF last.b.i < 0 THEN n + last.b.i ELSE last.b.i
                  IN  ~q_vec_is_null_at(v, k) => last.ret = ElemValue(v, k + 1)
            /\ (IsVecOf(last.b, "BOOL") /\ last.pre[last.b.h].count = n) =>
                  LET m == last.pre[last.b.h]
                      kept == {i \in 1..n : m.storage.vals[i] # 0 /\ ~q_vec_is_null_at(m, i - 1)}
                  IN  /\ last.ret.type = "VECTOR"
                      /\ last.ret.h \in DOMAIN heap
                      /\ heap[last.ret.h].count = Cardinality(kept)

\* q_get of the I64 vector [0, 1] at index 0 has returned Null
C24_Witness ==
    /\ last.op = "q_get" /\ last.a = V1 /\ last.b = qv_int(0)
    /\ last.pre[1].type = "I64" /\ last.pre[1].storage.vals = <<0, 1>>
    /\ ~last.pre[1].has_nulls
    /\ last.ret = qv_null

\* q_get of a list at index -1 gives its last item
C24_ListIndexing ==
    (last.op = "q_get" /\ last.a.type = "LIST" /\ last.b.type = "INT") =>
        LET items == last.pre[last.a.h].items
            n == Len(items)
        IN  /\ (last.b.i >= 0 /\ last.b.i < n) => last.ret = items[last.b.i + 1]
            /\ (last.b.i < 0 /\ last.b.i >= -n) => last.ret = items[n + last.b.i + 1]

\* the whole power a^b of two Ints of the exploration lies in
\* [-2^63, 2^63 - 1]: not for a zero base with a negative exponent (the power is
\* infinite); for base 2 up to exponent 62 and for base -2 up to exponent 63
\* (-2^63 is the least long long); every other power explored is below 2^31
\* in magnitude
PowerInLLongRange(a, b) ==
    CASE a = 0 /\ b < 0 -> FALSE
      [] a = 2 /\ b >= 32 -> b <= 62
      [] a = -2 /\ b >= 32 -> b <= 63
      [] OTHER -> TRUE

\* C25: for Int operands a and b, q_pow(a, b) returns an Int only when the
\* computed power lies within the signed 64-bit range [-2^63, 2^63 - 1];
\* every result outside that range (exactly 2^63 included, as for pow(2, 63))
\* is returned as a Float, and a Float operand always yields a Float.
C25_PowOverflow ==
    NumericCall({"q_pow"}) =>
        IF either_float(last.a, last.b) THEN last.ret.type = "FLOAT"
        ELSE IF PowerInLLongRange(last.a.i, last.b.i) THEN last.ret.type \in {"INT", "FLOAT"}
        ELSE last.ret.type = "FLOAT"

\* q_pow(2, 63) has returned an Int
C25_Witness ==
    /\ last.op = "q_pow" /\ last.a = qv_int(2) /\ last.b = qv_int(63)
    /\ last.ret.type = "INT"

\* the claim with the power 2^63 itself left out
C25_PowOverflowOffEdge ==
    (NumericCall({"q_pow"}) /\ ~PowAtLLongEdge(last.a, last.b)) =>
        IF either_float(last.a, last.b) THEN last.ret.type = "FLOAT"
        ELSE last.ret.type = (IF PowerInLLongRange(last.a.i, last.b.i) THEN "INT" ELSE "FLOAT")

\* the dtype of a vector operand of the recorded call
VecType(x) == last.pre[x.h].type

\* the vector operands of the recorded call
VecOperands == {x \in {last.a, last.b} : x.type = "VECTOR"}

\* the comparison kernel for op and dtype type exists: equality for every
\* dtype, ordering for the numeric dtypes
KernelHas(op, type) == op \in {"q_vec_eq", "q_vec_neq"} \/ type \in {"F64", "I64"}

\* the scalar types a dtype's comparison kernel takes
ScalarFits(type, s) ==
    CASE type = "F64" -> s.type \in {"INT", "FLOAT"}
      [] type = "I64" -> s.type \in {"INT", "BOOL"}
      [] type = "BOOL" -> s.type \in {"BOOL", "INT"}
      [] type = "STR" -> s.type = "STRING"

\* a scalar the way the kernel of dtype type reads it: a Bool vector reads
\* an Int for its truth value
ReadAs(type, s) == IF type = "BOOL" /\ s.type = "INT" THEN qv_bool(s.i # 0) ELSE s

\* operand x at element i (1-based) as the kernel of dtype type compares it
ComparedAt(type, x, i) == IF x.type = "VECTOR" THEN ElemValue(last.pre[x.h], i) ELSE ReadAs(type, x)

\* the recorded comparison returned a Bool vector of the operand length whose
\* mask, null elements and values are those of its operands
CmpResultOverNulls ==
    LET v == CHOOSE x \in VecOperands : TRUE
        n == last.pre[v.h].count
        type == VecType(v)
        masked == \E x \in VecOperands : last.pre[x.h].has_nulls
    IN  /\ last.ret.type = "VECTOR"
        /\ LET out == heap[last.ret.h]
           IN  /\ out.type = "BOOL" /\ out.count = n /\ Len(out.storage.vals) = n
               /\ out.has_nulls = masked
               /\ \A i \in 1..n :
                     LET null == \E x \in VecOperands : q_vec_is_null_at(last.pre[x.h], i - 1)
                     IN  /\ q_vec_is_null_at(out, i - 1) = null
                         /\ ~null =>
                               (out.storage.vals[i] # 0)
                                  = Satisfies(RelOf(last.op), ComparedAt(type, last.a, i),
                                              ComparedAt(type, last.b, i))
               /\ (last.op = "q_vec_neq" /\ ~masked) =>
                     LET eq == q_vec_eq(last.pre, last.a, last.b)
                     IN  /\ eq.ret.type = "VECTOR"
                         /\ \A i \in 1..n :
                               (out.storage.vals[i] # 0)
                                  = (eq.heap[eq.ret.h].storage.vals[i] = 0)

\* operands the words of C27 cover: two vectors of the same kind of element
\* and equal length, or a vector and a scalar of its kind of element
CoveredByWords ==
    /\ last.op \in CmpOps
    /\ VecOperands # {}
    /\ IF BothVectors
       THEN /\ last.pre[last.a.h].count = last.pre[last.b.h].count
            /\ \/ {VecType(last.a), VecType(last.b)} \subseteq {"F64", "I64"}
               \/ VecType(last.a) = VecType(last.b)
       ELSE LET v == CHOOSE x \in VecOperands : TRUE
                s == IF last.a.type = "VECTOR" THEN last.b ELSE last.a
            IN  CASE VecType(v) \in {"F64", "I64"} -> s.type \in {"INT", "FLOAT"}
                  [] VecType(v) = "BOOL" -> s.type = "BOOL"
                  [] VecType(v) = "STR" -> s.type = "STRING"

\* operands the kernels take: a kernel that exists for the dtype, two
\* vectors of that one dtype and equal length, or a vector and a scalar the
\* dtype's kernel takes
TakenByKernel ==
    /\ last.op \in CmpOps
    /\ VecOperands # {}
    /\ \A x \in VecOperands : KernelHas(last.op, VecType(x))
    /\ IF BothVectors
       THEN /\ last.pre[last.a.h].count = last.pre[last.b.h].count
            /\ VecType(last.a) = VecType(last.b)
       ELSE LET v == CHOOSE x \in VecOperands : TRUE
                s == IF last.a.type = "VECTOR" THEN last.b ELSE last.a
            IN  ScalarFits(VecType(v), s)

C27_WitnessRefused ==
    /\ last.op = "q_vec_lt" /\ last.a = V1 /\ last.b = qv_float(Fin(3, 2))
    /\ last.pre[1].type = "I64" /\ last.pre[1].count = 2
    /\ last.ret = qv_null

\* C28: in every vector reachable from the constructors by any sequence of
\* the public operations, has_nulls implies count >= 1: no empty vector
\* carries a null mask, and a vector with has_nulls set has a non-empty mask,
\* so the early return of q_fillna for an empty mask is never taken with
\* has_nulls still set.
C28_NoEmptyMask ==
    \A h \in DOMAIN heap :
        (heap[h].type \notin {"LIST", "DICT"} /\ heap[h].has_nulls) =>
            /\ heap[h].count >= 1
            /\ heap[h].nulls # <<>>

\* a Bool vector whose only element is null, next to the empty unmasked Bool
\* vector that filtering it by itself produces
C28_Witness ==
    /\ Len(heap) = 2
    /\ heap[1].type = "BOOL" /\ heap[1].count = 1 /\ heap[1].has_nulls
    /\ heap[1].storage.vals = <<1>> /\ heap[1].nulls = <<1>>
    /\ heap[2].type = "BOOL" /\ heap[2].count = 0 /\ ~heap[2].has_nulls

\* the fill scalars C29 names as not accepted for a dtype: a non-numeric
\* scalar for F64, a String for I64 or Bool, a non-String for Str
NamedAsRefused(type, s) ==
    CASE type = "F64" -> s.type \notin {"INT", "FLOAT"}
      [] type \in {"I64", "BOOL"} -> s.type = "STRING"
      [] type = "STR" -> s.type # "STRING"

\* C29: when a vector carries a null mask and the fill scalar is of a type
\* not accepted for its dtype, q_fillna returns Null and the vector's
\* element values, count, has_nulls flag and null mask are exactly as before
\* the call; a following q_fillna with an accepted scalar still fills the
\* same null positions.
C29_FillnaFailure ==
    /\ (/\ last.op = "q_fillna"
        /\ last.pre[1].has_nulls
        /\ NamedAsRefused(last.pre[1].type, last.b))
       => last.ret = qv_null /\ heap = last.pre
    /\ (/\ last.op = "q_fillna;q_fillna"
        /\ last.pre[1].has_nulls
        /\ NamedAsRefused(last.pre[1].type, last.b.first))
       => LET v == last.pre[1]
              s == last.b.second
              post == heap[1]
          IN  /\ last.first = qv_null
              /\ last.mid = last.pre
              /\ Accepts(v.type, s) =>
                    /\ last.ret = V1
                    /\ ~post.has_nulls /\ post.nulls = <<>>
                    /\ post.type = v.type /\ post.count = v.count
                    /\ Elems(post) = [i \in 1..v.count |->
                          IF v.nulls[i] # 0 THEN Converted(v.type, s) ELSE Elems(v)[i]]

\* an I64 vector [0, null] refused the fill "a" and was then filled with 1
C29_Witness ==
    /\ last.op = "q_fillna;q_fillna"
    /\ last.pre[1].type = "I64" /\ last.pre[1].storage.vals = <<0, 0>>
    /\ last.pre[1].nulls = <<0, 1>>
    /\ last.b = [first |-> qv_string(<<"a">>), second |-> qv_int(1)]
    /\ last.first = qv_null /\ last.mid = last.pre
    /\ heap[1].storage.vals = <<0, 1>> /\ ~heap[1].has_nulls

\* C30: for a dict d, every member name m and every value x, after
\* q_member_set(d, m, x) the call q_member_get(d, m) returns x, the member
\* names "length" and "size" included.
C30_MemberRoundTrip ==
    last.op = "q_member_set;q_member_get" => last.ret = last.b.value

\* after q_member_set(d, "length", "a") on an empty dict, q_member_get(d,
\* "length") has returned the Int 1, the number of entries
C30_Witness ==
    /\ last.op = "q_member_set;q_member_get"
    /\ last.pre[1].entries = NoEntries
    /\ last.b = [member |-> LengthName, value |-> qv_string(<<"a">>)]
    /\ last.first = D1
    /\ heap[1].entries[LengthName] = qv_string(<<"a">>)
    /\ last.ret = qv_int(1)

\* the round trip for the member names other than "length" and "size", and
\* the entry count for those two
C30_MemberRoundTripOtherNames ==
    last.op = "q_member_set;q_member_get" =>
        /\ last.first = D1
        /\ heap[1].entries[last.b.member] = last.b.value
        /\ IF last.b.member \in {LengthName, SizeName}
           THEN last.ret = qv_int(Cardinality(DOMAIN heap[1].entries))
           ELSE last.ret = last.b.value

====
